---- MODULE Spec2Model ----
(***************************************************************************)
(* Model of the JetStream context of nats.c (src/src/js.c).                *)
(*                                                                         *)
(* Part 1: the asynchronous publish pipeline: js_PublishMsgAsync with      *)
(* _registerPubMsg and _newAsyncReply, the reply dispatcher                *)
(* _handleAsyncReply with the user's ErrHandler, js_PublishAsyncComplete   *)
(* and js_PublishAsyncGetPendingList, all sharing one jsCtx guarded by     *)
(* js->mu and js->cond.                                                    *)
(*                                                                         *)
(* Threads: the user threads of Users call the public API; the thread Disp *)
(* is the delivery thread of the reply subscription (js->rsub), which runs *)
(* _handleAsyncReply for one reply at a time and, inside it, the user's    *)
(* ErrHandler, which may itself call js_PublishMsgAsync.                   *)
(***************************************************************************)
EXTENDS Integers, FiniteSets, Sequences, TLC

\* ------------------------------------------------------------ bounds
\* Number of js_PublishMsgAsync calls made in one behaviour.
MaxCalls == 2
\* Number of distinct reply tokens nats_Rand64 can produce in the model.
NumTokens == 2

\* ------------------------------------------------------------ universe
Users   == {"u1", "u2"}
Disp    == "disp"
Threads == Users \cup {Disp}
NoThread == "none"

Tokens  == 1..NumTokens
\* Messages are numbered from 1 in the order the users create them; the
\* ErrHandler publishes again the message it was handed.
NULL    == 0

\* What the server (or the transport) answers on the reply subject.
\*   "ack"     a pub ack: JSON that parses and has no error object
\*   "apierr"  JSON that parses and has an error object with a code
\*   "noresp"  the transport's no-responders status message
\*   "badjson" a payload nats_JSONParse rejects
ReplyKinds == {"ack", "apierr", "noresp", "badjson"}

\* Values of PublishAsync.MaxPending tried (0: no limit): those that MaxCalls
\* calls can exceed.
MaxPendings == 0..(MaxCalls - 1)

\* A map entry: the message stored, and whether the observed call stored it.
NoEntry == [msg |-> NULL, w |-> FALSE]

VARIABLES
    opts,       \* js->opts.PublishAsync: [MaxPending, ErrHandler]
    mu,         \* owner of js->mu, or NoThread
    refs,       \* js->refs
    rsub,       \* js->rsub != NULL (with it js->pm, js->cond, js->rpre)
    pm,         \* js->pm: token -> [msg, w]; NoEntry where absent
    pmcount,    \* js->pmcount
    stalled,    \* js->stalled
    pacw,       \* js->pacw
    pc,         \* where each thread is
    wst,        \* a thread in a condition wait: "waiting" or "signalled"
    msgp,       \* the caller's natsMsg* variable (*msg); for Disp, pae.Msg
    reply,      \* js_PublishMsgAsync: the token of the local reply subject
    pmsg,       \* _handleAsyncReply: local pmsg, a map entry
    resent,     \* the ErrHandler has already made its js_PublishMsgAsync call
    acks,       \* tokens of the replies on the wire towards the reply subscription
    ncalls,     \* number of js_PublishMsgAsync calls started
    nmsgs,      \* number of messages created by the users
    nlost,      \* number of map entries overwritten by a call with the same token
    ev,         \* js_PublishAsyncComplete or js_PublishAsyncGetPendingList returned
                \* in the last step: [op, res, list, waited]
    obs,        \* history of one js_PublishMsgAsync call, the observed call
    life,       \* lifetime of the context: [user, closing, subs, alive, ncrefs,
                \* hooks, uaf], see NewLife
    ack,        \* one message delivered to a subscription and its acks, see NewAck
    sub,        \* one js_Subscribe call and its subscription, see NewSub
    cfg,        \* one comparison of consumer configurations, see NewCfg
    fetch,      \* one natsSubscription_Fetch call, see NewFetch
    hb,         \* heartbeats and sequences of one subscription, see NewHb
    meta,       \* one ack reply subject given to _getMetaData, see NewMeta
    lazy        \* the objects _newAsyncReply creates at first use, see NewLazy

\* the variables of the asynchronous publish pipeline
pipe == <<opts, mu, refs, rsub, pm, pmcount, stalled, pacw, pc, wst,
          msgp, reply, pmsg, resent, acks, ncalls, nmsgs, nlost, ev, obs>>

\* the variables outside the pipeline
rest == <<life, ack, sub, cfg, fetch, hb, meta, lazy>>

vars == <<opts, mu, refs, rsub, pm, pmcount, stalled, pacw, pc, wst,
          msgp, reply, pmsg, resent, acks, ncalls, nmsgs, nlost, ev, obs,
          life, ack, sub, cfg, fetch, hb, meta, lazy>>

\* The observed call: any one call of a behaviour, chosen when it starts.
\*   by        the thread that makes it, while it runs
\*   msg       its message
\*   inc, dec  increments of the pending count by the call, and decrements by
\*             the call or made for the removal of its map entry
\*   ins, rem  insertions and removals of its map entry
\*   res       "NONE" while no call is observed, "RUN" while the call runs,
\*             then the status returned
\*   disp      _handleAsyncReply has removed its entry ("rem") and finished ("done")
\*   cb        invocations of the ErrHandler for its entry
\*   kind      the kind of the reply being dispatched for its entry
\*   freed     natsMsg_Destroy calls of the library on its message
\*   lost      its entry was overwritten by another call with the same token
\*   ptr       the caller's *msg when the call returned
\*   xfail     natsConn_publish failed in the call
\*   cbk       the call was made from the ErrHandler
\*   woken     while the call was in the stall wait, a dispatch lowered the
\*             pending count to MaxPending or below
\*   listed    lists of js_PublishAsyncGetPendingList its message was handed
\*             back in
NoObs == [by |-> NoThread, msg |-> NULL, inc |-> 0, dec |-> 0,
          ins |-> 0, rem |-> 0, res |-> "NONE", disp |-> "no", cb |-> 0,
          kind |-> "none", freed |-> 0, lost |-> FALSE, ptr |-> NULL,
          xfail |-> FALSE, cbk |-> FALSE, woken |-> FALSE, listed |-> 0]

NoEvent == [op |-> "none", res |-> "NONE", list |-> {}, waited |-> FALSE]

\* The context as natsConnection_JetStream returns it:
\*   user     the user holds its reference (jsCtx_Destroy was not called)
\*   closing  js->rsub was destroyed and its completion callback has not run
\*   subs     JetStream subscriptions (jsSub) holding a reference
\*   alive    the context was not freed
\*   ncrefs   references the context holds on the connection (natsConn_retain)
\*   hooks    runs of the completion callback of the reply subscription
\*   uaf      a thread has used the context after it was freed
NewLife == [user |-> TRUE, closing |-> FALSE, subs |-> 0, alive |-> TRUE,
            ncrefs |-> 1, hooks |-> 0, uaf |-> FALSE]

\* the asynchronous publish pipeline of a new context
InitPipeline ==
    /\ opts \in [MaxPending : MaxPendings, ErrHandler : BOOLEAN]
    /\ mu = NoThread
    /\ refs = 1
    /\ rsub = FALSE
    /\ pm = [t \in Tokens |-> NoEntry]
    /\ pmcount = 0
    /\ stalled = 0
    /\ pacw = 0
    /\ pc = [t \in Threads |-> "idle"]
    /\ wst = [t \in Threads |-> "none"]
    /\ msgp = [t \in Threads |-> NULL]
    /\ reply = [t \in Threads |-> NULL]
    /\ pmsg = NoEntry
    /\ resent = FALSE
    /\ acks = {}
    /\ ncalls = 0
    /\ nmsgs = 0
    /\ nlost = 0
    /\ ev = NoEvent
    /\ obs = NoObs

\* _subscribe lines 1977-1984: the subscription gets _autoAckCB as its callback
AutoAck(usrCB, manualAck, ackNone) == usrCB /\ ~manualAck /\ ~ackNone

\* a message with a reply subject of r ("none", "short": below 256 characters,
\* "long") delivered to a subscription made with the callback and options
\* given; bound: msg->sub is set
\*   acked  the flag natsMsg_setAcked sets     gone  the message was destroyed
\*   sent   the payloads published to the reply subject, in order, each with
\*          its publisher ("api": _ackMsg, "auto": _autoAckCB) and the status
\*          of the call that published it
\*   cb     "new": not delivered yet, "in": in the user's callback, "out": the
\*          callback returned, "user": no callback, the user holds the message
\*   snap   the copy of the reply subject _autoAckCB holds: "none", "copy",
\*          "fail" (no memory)
\*   n      _ackMsg calls made     last  the last of them
NewAck(r, usrCB, manualAck, ackNone, bound) ==
    [reply |-> r, auto |-> AutoAck(usrCB, manualAck, ackNone), bound |-> bound,
     acked |-> FALSE, gone |-> FALSE, sent |-> <<>>,
     cb |-> IF usrCB THEN "new" ELSE "user", snap |-> "none", n |-> 0,
     last |-> [op |-> "none", res |-> "NONE", pub |-> FALSE, was |-> FALSE]]

\* the options of a subscribe call that matter to _subscribe: a Queue name, a
\* Config.Heartbeat above zero, Config.FlowControl, a Stream name, a Consumer
\* name, a durable name, pull mode, and an async error handler on the connection
SubFields == {"queue", "hb", "fc", "stream", "consumer", "durable", "pull",
              "errCb"}

\* no consumer info, or one without Config
NoInfo == [config |-> FALSE, filter |-> "none", hb |-> FALSE, fc |-> FALSE,
           push |-> FALSE, dg |-> "none", pushBound |-> FALSE, cfgOK |-> FALSE]

\* a subscribe call with options o, before it starts
\*   pos      the step the call is at    res  the status it returned
\*   s, lookupErr, info, create, hbi     the variables of _subscribe (hbi: > 0)
\*   how      where info came from: "lookup", "refetch" (after AddConsumer),
\*            "none" while info is NULL
\*   check    the PROCESS_INFO check that failed, "OK" if none did
\*   jsi      the jsSub: "none", "nojs" (allocated, js not set), "live", "freed"
\*   nsub     the delivery subscription: "none", "live", "destroyed"
\*   dc, consumer   jsi->dc, and jsi->consumer is set
\*   addres   what AddConsumer answered
\*   nstream, lookups, adds, made, dels   stream lookups, consumer lookups,
\*            AddConsumer requests, subscriptions created, DeleteConsumer
\*            requests
\*   unsub, drain   the callers of jsSub_deleteConsumer: the unsubscribe path
\*            and the drain-completion path, each with what it read of dc
\*   ub       jsSub_free was called on a jsSub whose js is NULL
\*   retains, releases   js_retain calls made for the jsSub, and js_release
\*            calls made by jsSub_free
NewSub(o) ==
    [in |-> o, pos |-> "none", res |-> "NONE", s |-> "OK", lookupErr |-> FALSE,
     info |-> NoInfo, create |-> FALSE, hbi |-> FALSE, how |-> "none",
     check |-> "none", jsi |-> "none", nsub |-> "none", timer |-> FALSE,
     dc |-> FALSE, consumer |-> FALSE, addres |-> "none", nstream |-> 0,
     lookups |-> 0, adds |-> 0, made |-> 0, dels |-> 0,
     unsub |-> "idle", drain |-> "idle", ub |-> FALSE,
     retains |-> 0, releases |-> 0]

\* the fields of jsConsumerConfig that _checkConfig compares, in its order
CfgOrder ==
    <<"Durable", "Description", "DeliverPolicy", "OptStartSeq", "OptStartTime",
      "AckPolicy", "AckWait", "MaxDeliver", "ReplayPolicy", "RateLimit",
      "SampleFrequency", "MaxWaiting", "MaxAckPending", "FlowControl",
      "Heartbeat">>

\* the values a field takes: a string is NULL ("<null>"), empty or a text; an
\* enum is -1 when not set; OptStartSeq and RateLimit are uint64_t, the other
\* numbers int64_t
CfgValues(f) ==
    CASE f \in {"Durable", "Description", "SampleFrequency"} ->
            {"<null>", "", "a", "b"}
      [] f \in {"DeliverPolicy", "AckPolicy", "ReplayPolicy"} -> {-1, 0, 1}
      [] f \in {"OptStartSeq", "RateLimit"} -> {0, 1, 2}
      [] f = "FlowControl" -> BOOLEAN
      [] OTHER -> {-1, 0, 1, 2}

\* the configuration with every field set, or with none
CfgBase(set) ==
    [f \in {CfgOrder[i] : i \in DOMAIN CfgOrder} |->
        CASE f \in {"Durable", "Description", "SampleFrequency"} ->
                IF set THEN "a" ELSE "<null>"
          [] f \in {"DeliverPolicy", "AckPolicy", "ReplayPolicy"} ->
                IF set THEN 1 ELSE -1
          [] f = "FlowControl" -> set
          [] OTHER -> IF set THEN 1 ELSE 0]

\* a comparison of the server's configuration s with the user's u, both c at
\* first: edits counts the changes made to them, res is what _checkConfig
\* returned for them ("NONE": not called, "OK", or the field it reported)
NewCfg(c) == [s |-> c, u |-> c, edits |-> 0, res |-> "NONE"]

\* a natsSubscription_Fetch call for batch messages within timeout
\* milliseconds, on a subscription that is a pull one or not and has pending
\* messages (pmc) or not
\*   pos      "none", "drain" (first loop), "request", "wait" (second loop),
\*            "done"
\*   timeout  the variable _sendPullRequest decrements
\*   now      nats_Now() - start, in milliseconds
\*   s, noWait (doNoWait), msgs (msgs[0..count-1])   the variables of Fetch
\*   reqs     the pull requests published: batch, expires (ns), no_wait, and
\*            the time since the start at which each was made (at)
\*   asked    a 404 has made the call try its second request
\*   res, list, cleared   the status returned, the list handed back, and
\*            nats_clearLastError was called
NewFetch(b, t, pull, pmc) ==
    [batch |-> b, t0 |-> t, timeout |-> t, pull |-> pull, pmc |-> pmc,
     pos |-> "none", s |-> "OK", now |-> 0, noWait |-> FALSE, msgs |-> <<>>,
     reqs |-> <<>>, asked |-> FALSE, res |-> "NONE", list |-> <<>>,
     cleared |-> FALSE]

\* a token of a reply subject: its characters, or no token at all (start ==
\* NULL); also a string handed back by _getMetaData
NoToken == [null |-> TRUE, str |-> <<>>]

\* the fields _getMetaData can fill in, before the call
NoOut ==
    [domain |-> NoToken, stream |-> NoToken, consumer |-> NoToken,
     numDelivered |-> 0, sseq |-> 0, dseq |-> 0, tm |-> 0, numPending |-> 0]

\* a call of _getMetaData on the characters rply (what follows "$JS.ACK.")
\* for the fields want, asked being their number; res is the status returned
NewMeta(rply, want) ==
    [reply |-> rply, want |-> want, edits |-> 0, res |-> "NONE", out |-> NoOut]

\* a JetStream subscription made on a connection that has an async error
\* handler (errCb) or not, with a heartbeat interval hbi and a message
\* callback (async) or not
\*   pos      "new", "live", "closed"
\*   errNow   a handler is registered now
\*   timer    jsi->hbTimer: "none", "on", "stopped"; period its interval
\*   refs     sub->refs
\*   active, cmeta, sseq, dseq, ldseq, sm, ssmn    the fields of jsSub
\*   told     *sm of the last heartbeat; res its status
\*   raised   mismatches reported (NATS_MISMATCH raised or returned), epi those
\*            since sm and ssmn were last cleared
\*   missed   NATS_MISSED_HEARTBEAT posted
\*   quiet    no message with an ack reply, heartbeat or flow control message
\*            was taken since the last tick of the timer
\*   last, adv   the consumer sequence of the last message delivered and the
\*            one the last heartbeat advertised
\*   csm      what natsSubscription_GetSequenceMismatch last returned
\*   op, n    the last step and the number of steps
NewHb(errCb, hbi, async) ==
    [errCb |-> errCb, errNow |-> errCb, hbi |-> hbi, async |-> async,
     pos |-> "new", timer |-> "none", period |-> 0, refs |-> 0,
     active |-> FALSE, cmeta |-> NoToken, sseq |-> 0, dseq |-> 0, ldseq |-> 0,
     sm |-> FALSE, ssmn |-> FALSE, told |-> FALSE, res |-> "OK",
     raised |-> 0, epi |-> 0, missed |-> 0, quiet |-> TRUE,
     last |-> 0, adv |-> 0, csm |-> [s |-> "NONE"], op |-> "none", n |-> 0]

\* a context as _registerPubMsg and _newAsyncReply see it
\*   cond, pm, rpre, rsub   js->cond, js->pm, js->rpre, js->rsub are set
\*   refs, pmcount          js->refs, js->pmcount
\*   made     how many times each of the four objects was created
\*   s        the status of the last _registerPubMsg; was the context before it
\*   log      where each call failed ("none": nowhere)
NewLazy ==
    [cond |-> FALSE, pm |-> FALSE, rpre |-> FALSE, rsub |-> FALSE,
     refs |-> 1, pmcount |-> 0,
     made |-> [cond |-> 0, pm |-> 0, rpre |-> 0, rsub |-> 0],
     s |-> "NONE", was |-> [refs |-> 1, pmcount |-> 0, rsub |-> FALSE],
     log |-> <<>>]

Init ==
    /\ InitPipeline
    /\ life = NewLife
    /\ ack = NewAck("none", FALSE, FALSE, FALSE, FALSE)
    /\ sub = NewSub([f \in SubFields |-> FALSE])
    /\ cfg = NewCfg(CfgBase(FALSE))
    /\ fetch = NewFetch(0, 0, FALSE, FALSE)
    /\ hb = NewHb(FALSE, 0, FALSE)
    /\ meta = NewMeta(<<>>, {})
    /\ lazy = NewLazy

\* ------------------------------------------------------------ helpers

\* natsStrHash_Count
Count(map) == Cardinality({t \in Tokens : map[t] # NoEntry})

\* natsStrHash_Set(js->pm, id, true, msg, NULL): the old value is not asked for
Set(map, id, e) == [map EXCEPT ![id] = e]

\* a faulty natsStrHash_Remove that leaves the entry in the map; with it the
\* map outgrows the pending count
RemoveNothing(map, id) == map

\* natsStrHash_Remove(js->pm, id): the map without id (the value is map[id])
Remove(map, id) == [map EXCEPT ![id] = NoEntry]

\* natsCondition_Broadcast(js->cond): every thread waiting on it is woken
Broadcast(w) == [t \in Threads |-> IF w[t] = "waiting" THEN "signalled" ELSE w[t]]

\* natsCondition_Wait / natsCondition_AbsoluteTimedWait return: OK when the
\* thread was woken, TIMEOUT when a timed wait reaches its deadline unwoken.
\* A wait without a deadline is one whose deadline is never reached.
WaitResults(w) == IF w = "signalled" THEN {"OK"} ELSE {"TIMEOUT"}

\* _registerPubMsg: the caller has to wait for room (lines 708-710)
MustStall(count) == opts.MaxPending > 0 /\ count > opts.MaxPending

\* _registerPubMsg: the stall loop goes on (line 717)
StallGoesOn(s, count) == s # "TIMEOUT" /\ count > opts.MaxPending

\* js_PublishAsyncComplete: the wait loop goes on (line 831)
CompleteGoesOn(s, count) == s # "TIMEOUT" /\ count > 0

\* a faulty end of js_PublishAsyncComplete that turns every timeout into
\* success, whatever is pending
CompleteStatusLenient(s, count) == IF s = "TIMEOUT" THEN "OK" ELSE s

\* js_PublishAsyncComplete: the status returned after the loop (lines 842-843)
CompleteStatus(s, count) == IF s = "TIMEOUT" /\ count = 0 THEN "OK" ELSE s

\* a faulty classification that takes a reply it cannot parse for an ack
ReplyErrParsed(kind) ==
    CASE kind = "noresp"  -> "NO_RESPONDERS"
      [] kind = "apierr"  -> "ERR"
      [] OTHER            -> "OK"

\* _handleAsyncReply: pae.Err for a reply (lines 550-575); "OK" is no error
ReplyErr(kind) ==
    CASE kind = "noresp"  -> "NO_RESPONDERS"
      [] kind = "badjson" -> "ERR"
      [] kind = "apierr"  -> "ERR"
      [] OTHER            -> "OK"

\* _handleAsyncReply: the ErrHandler is invoked (lines 543 and 578)
InvokeCB(kind) == opts.ErrHandler /\ ReplyErr(kind) # "OK"

\* a faulty end of _handleAsyncReply that destroys the message whatever the
\* handler did with pae.Msg
ToDestroyAlways(invoked, paeMsg, m) == m

\* _handleAsyncReply: the message destroyed at the end (lines 594-595, 611):
\* none when the handler was invoked and pae.Msg is no longer pmsg
ToDestroy(invoked, paeMsg, m) == IF invoked /\ paeMsg # m THEN NULL ELSE m

\* _handleAsyncReply: broadcast after the decrement (lines 604-605)
MustBroadcast(count) ==
    \/ pacw > 0 /\ count = 0
    \/ stalled > 0 /\ count <= opts.MaxPending

\* a faulty _registerPubMsg that fails without taking the pending count back
TakeBackNothing(count) == count

\* _registerPubMsg line 731: the pending count when the call fails
TakeBack(count) == count - 1

\* a faulty js_PublishMsgAsync that decrements the pending count after a
\* failed publish whether or not its token was still in the map
AfterFailedPublishBlind(count, found) == count - 1

\* js_PublishMsgAsync lines 786-789: the pending count after the failed
\* publish looked for its token in the map
AfterFailedPublish(count, found) == IF found THEN count - 1 ELSE count

\* js_PublishMsgAsync lines 786-787: the status after the failed publish
\* looked for its token in the map
FailedPublishStatus(found) == IF found THEN "ERR" ELSE "OK"

\* _handleAsyncReply line 584: the owner of the mutex while the ErrHandler runs
HandlerMutex == NoThread

\* a faulty js_PublishAsyncGetPendingList that sets the pending count to zero
DrainCountZero(count, n) == 0

\* js_PublishAsyncGetPendingList: the pending count after removing n entries,
\* each removal decrementing it while it is positive (lines 874-880)
DrainCount(count, n) == IF count > n THEN count - n ELSE 0

\* a call returns to where it was made: the ErrHandler, or the user
Caller(c) == IF c = Disp THEN "cb" ELSE "idle"

\* thread c is making the observed call of history h
Running(h, c) == h.by = c /\ h.res = "RUN"

\* the history when the entry e leaves the map with or without a decrement
Removed(h, e, n) == IF e.w THEN [h EXCEPT !.rem = @ + 1, !.dec = @ + n] ELSE h

\* the history when thread c, its publish failed, finds the entry e under its
\* token and lowers the pending count by n
FailureHandled(h, c, e, n) ==
    IF e.w THEN Removed(h, e, n)
    ELSE IF Running(h, c) THEN [h EXCEPT !.dec = @ + n]
    ELSE h

\* the history when the library calls natsMsg_Destroy(m)
Freed(h, m) == IF m # NULL /\ m = h.msg THEN [h EXCEPT !.freed = @ + 1] ELSE h

\* js_PublishMsgAsync lines 797-798: *msg when the call returns s
Pointer(s, m) == IF s = "OK" THEN NULL ELSE m

\* js_PublishMsgAsync returns s. The variables of a user's call are gone then;
\* the ErrHandler's *msg is pae.Msg, which _handleAsyncReply reads.
PubReturn(c, m, s, h) ==
    /\ pc' = [pc EXCEPT ![c] = Caller(c)]
    /\ msgp' = [msgp EXCEPT ![c] = IF c = Disp THEN Pointer(s, m) ELSE NULL]
    /\ reply' = [reply EXCEPT ![c] = NULL]
    /\ ev' = NoEvent
    /\ obs' = IF Running(h, c)
              THEN [h EXCEPT !.by = NoThread, !.res = s, !.ptr = Pointer(s, m)]
              ELSE h

\* ------------------------------------------------------------ js_PublishMsgAsync

\* a thread may call js_PublishMsgAsync: a user with a new message, or the
\* ErrHandler with the message it was handed (pae->Msg)
CanPublish(c) ==
    /\ ncalls < MaxCalls
    /\ \/ c \in Users /\ pc[c] = "idle"
       \/ c = Disp /\ pc[c] = "cb" /\ ~resent /\ msgp[c] # NULL

\* _newAsyncReply lines 676-686: the token drawn from nats_Rand64. It is one
\* that is still in use (in the map, in a call or in a reply on the wire) or
\* a new one; the new ones are interchangeable and the least stands for them.
InUse == {t \in Tokens : pm[t] # NoEntry \/ t \in acks \/ \E c \in Threads : reply[c] = t}

NewTokens ==
    InUse \cup {t \in Tokens \ InUse : \A x \in Tokens \ InUse : t <= x}

\* the message of the call
MsgOf(c) == IF c = Disp THEN msgp[c] ELSE nmsgs + 1

\* the call may become the observed call, if none was chosen before
Watch(c, watch) ==
    IF watch
    THEN [NoObs EXCEPT !.by = c, !.msg = MsgOf(c), !.inc = 1, !.res = "RUN",
                       !.cbk = (c = Disp)]
    ELSE obs

Watches == IF obs.res = "NONE" THEN BOOLEAN ELSE {FALSE}

StartCall(c) ==
    /\ ncalls' = ncalls + 1
    /\ nmsgs' = IF c = Disp THEN nmsgs ELSE nmsgs + 1
    /\ resent' = IF c = Disp THEN TRUE ELSE resent

\* _registerPubMsg, first call: _newAsyncReply fails to create the condition,
\* the map, the prefix or the subscription and undoes what it created; the
\* pending count is taken back.
RegisterInitFails(c) ==
    /\ CanPublish(c)
    /\ mu = NoThread
    /\ ~rsub
    /\ StartCall(c)
    /\ pmcount' = TakeBack(pmcount + 1)
    /\ \E watch \in Watches :
         LET h == Watch(c, watch) IN
         PubReturn(c, MsgOf(c), "ERR",
                   IF watch THEN [h EXCEPT !.dec = pmcount + 1 - pmcount'] ELSE h)
    /\ UNCHANGED <<nlost, opts, mu, refs, rsub, pm, stalled, pacw, wst,
                   pmsg, acks>>

\* the reference is not taken
RetainNothing(r) == r

\* _retain(js) before a wait on js->cond
_retain(r) == r + 1

\* _registerPubMsg: pending is above MaxPending, the caller waits on js->cond
RegisterStalls(c) ==
    /\ CanPublish(c)
    /\ mu = NoThread
    /\ MustStall(pmcount + 1)
    /\ StartCall(c)
    /\ \E tk \in NewTokens, watch \in Watches :
         /\ reply' = [reply EXCEPT ![c] = tk]
         /\ obs' = Watch(c, watch)
    /\ rsub' = TRUE
    /\ refs' = _retain(refs + (IF rsub THEN 0 ELSE 1))
    /\ pmcount' = pmcount + 1
    /\ stalled' = stalled + 1
    /\ pc' = [pc EXCEPT ![c] = "stall"]
    /\ wst' = [wst EXCEPT ![c] = "waiting"]
    /\ msgp' = [msgp EXCEPT ![c] = MsgOf(c)]
    /\ ev' = NoEvent
    /\ UNCHANGED <<nlost, opts, mu, pm, pacw, pmsg, acks>>

\* _registerPubMsg lines 726-731: natsStrHash_Set stores the message under the
\* token, or fails and the pending count is taken back
Insert(c, m, tk, count, h, setOK) ==
    IF setOK
    THEN /\ pm' = Set(pm, tk, [msg |-> m, w |-> Running(h, c)])
         /\ pmcount' = count
         /\ pc' = [pc EXCEPT ![c] = "send"]
         /\ msgp' = [msgp EXCEPT ![c] = m]
         /\ reply' = [reply EXCEPT ![c] = tk]
         /\ nlost' = IF pm[tk] # NoEntry THEN nlost + 1 ELSE nlost
         /\ obs' = IF Running(h, c) THEN [h EXCEPT !.ins = @ + 1]
                   ELSE IF pm[tk].w THEN [h EXCEPT !.lost = TRUE]
                   ELSE h
         /\ ev' = NoEvent
    ELSE /\ pm' = pm
         /\ pmcount' = TakeBack(count)
         /\ nlost' = nlost
         /\ PubReturn(c, m, "ERR",
                      IF Running(h, c) THEN [h EXCEPT !.dec = @ + count - pmcount'] ELSE h)

\* _registerPubMsg: there is room, the message is registered at once
RegisterInserts(c) ==
    /\ CanPublish(c)
    /\ mu = NoThread
    /\ ~MustStall(pmcount + 1)
    /\ StartCall(c)
    /\ rsub' = TRUE
    /\ refs' = refs + (IF rsub THEN 0 ELSE 1)
    /\ \E tk \in NewTokens, watch \in Watches, setOK \in BOOLEAN :
         Insert(c, MsgOf(c), tk, pmcount + 1, Watch(c, watch), setOK)
    /\ UNCHANGED <<opts, mu, stalled, pacw, wst, pmsg, acks>>

\* the stalled caller is woken (or its wait times out) and has the mutex again
StallWakes(c) ==
    /\ pc[c] = "stall"
    /\ mu = NoThread
    /\ \E s \in WaitResults(wst[c]) :
         IF StallGoesOn(s, pmcount)
         THEN /\ wst' = [wst EXCEPT ![c] = "waiting"]
              /\ ev' = NoEvent
              /\ UNCHANGED <<refs, pm, pmcount, stalled, pc, msgp, reply, nlost, obs>>
         ELSE /\ wst' = [wst EXCEPT ![c] = "none"]
              /\ stalled' = stalled - 1
              /\ refs' = refs - 1
              /\ IF s = "TIMEOUT"
                 THEN /\ pmcount' = TakeBack(pmcount)
                      /\ UNCHANGED <<pm, nlost>>
                      /\ PubReturn(c, msgp[c], "TIMEOUT",
                                   IF Running(obs, c)
                                   THEN [obs EXCEPT !.dec = @ + pmcount - pmcount']
                                   ELSE obs)
                 ELSE \E setOK \in BOOLEAN :
                        Insert(c, msgp[c], reply[c], pmcount, obs, setOK)
    /\ UNCHANGED <<opts, mu, rsub, pacw, pmsg, resent, acks,
                   ncalls, nmsgs>>

\* natsConn_publish(nc, *msg, reply): it succeeds or fails, and in both cases
\* the message may have reached the server. The reply to it is on the wire
\* from now on; one that never comes is one that is never delivered.
TransportPublish(c) ==
    /\ pc[c] = "send"
    /\ acks' = acks \cup {reply[c]}
    /\ \E ok \in BOOLEAN :
         /\ IF ok
            THEN PubReturn(c, msgp[c], "OK", obs)
            ELSE /\ pc' = [pc EXCEPT ![c] = "fail"]
                 /\ ev' = NoEvent
                 /\ obs' = IF Running(obs, c) THEN [obs EXCEPT !.xfail = TRUE] ELSE obs
                 /\ UNCHANGED <<msgp, reply>>
    /\ UNCHANGED <<nlost, opts, mu, refs, rsub, pm, pmcount, stalled, pacw, wst,
                   pmsg, resent, ncalls, nmsgs>>

\* js_PublishMsgAsync lines 774-791: the publish failed; the token is removed
\* from the map if it is still there
PublishFailed(c) ==
    /\ pc[c] = "fail"
    /\ mu = NoThread
    /\ LET e == pm[reply[c]] IN
       /\ pm' = Remove(pm, reply[c])
       /\ pmcount' = AfterFailedPublish(pmcount, e # NoEntry)
       /\ PubReturn(c, msgp[c], FailedPublishStatus(e # NoEntry),
                    FailureHandled(obs, c, e, pmcount - pmcount'))
    /\ UNCHANGED <<nlost, opts, mu, refs, rsub, stalled, pacw, wst, pmsg,
                   resent, acks, ncalls, nmsgs>>

js_PublishMsgAsync(c) ==
    \/ RegisterInitFails(c)
    \/ RegisterStalls(c)
    \/ RegisterInserts(c)
    \/ StallWakes(c)
    \/ TransportPublish(c)
    \/ PublishFailed(c)

\* ------------------------------------------------------------ _handleAsyncReply

\* lines 532-597: a reply arrives on the reply subscription. Its token is
\* removed from the map; a reply whose token is not there is dropped. With an
\* ErrHandler and an error the mutex is released and the handler invoked (the
\* thread is then in "cb"); otherwise the thread goes on, holding the mutex.
FoundAlways(e) == TRUE

\* lines 532-538: natsStrHash_Remove gave an entry
Found(e) == e # NoEntry

ReplyArrives(tk, kind) ==
    /\ pc[Disp] = "idle"
    /\ mu = NoThread
    /\ tk \in acks
    /\ acks' = acks \ {tk}
    /\ LET e == pm[tk] IN
       IF ~Found(e)
       THEN /\ ev' = [NoEvent EXCEPT !.op = "drop"]
            /\ UNCHANGED <<mu, pm, pc, msgp, pmsg, resent, obs>>
       ELSE /\ ev' = NoEvent
            /\ pm' = Remove(pm, tk)
            /\ pmsg' = e
            /\ resent' = FALSE
            /\ obs' = IF e.w
                      THEN [Removed(obs, e, 0) EXCEPT
                               !.disp = "rem", !.kind = kind,
                               !.cb = @ + (IF InvokeCB(kind) THEN 1 ELSE 0)]
                      ELSE obs
            /\ IF InvokeCB(kind)
               THEN /\ msgp' = [msgp EXCEPT ![Disp] = e.msg]
                    /\ pc' = [pc EXCEPT ![Disp] = "cb"]
                    /\ mu' = HandlerMutex
               ELSE /\ pc' = [pc EXCEPT ![Disp] = "dec"]
                    /\ mu' = Disp
                    /\ msgp' = msgp
    /\ UNCHANGED <<nlost, opts, refs, rsub, pmcount, stalled, pacw, wst, reply,
                   ncalls, nmsgs>>

\* lines 523-527: a message arrives on the reply subscription whose subject is
\* not longer than the reply prefix; it is destroyed before the mutex is taken
ReplyTooShort ==
    /\ pc[Disp] = "idle"
    /\ ev' = [NoEvent EXCEPT !.op = "short"]
    /\ UNCHANGED <<opts, mu, refs, rsub, pm, pmcount, stalled, pacw, pc, wst,
                   msgp, reply, pmsg, resent, acks, ncalls, nmsgs, nlost, obs>>

\* lines 588-612: the handler has returned and the mutex is taken again, or no
\* handler was invoked and the mutex is still held. The message is kept if the
\* handler cleared pae.Msg; the pending count is decremented, the waiters are
\* woken, the mutex released and the message destroyed.
ReplyDone ==
    /\ \/ pc[Disp] = "cb" /\ mu \in {NoThread, HandlerMutex}
       \/ pc[Disp] = "dec" /\ mu = Disp
    /\ pmcount' = pmcount - 1
    /\ wst' = IF MustBroadcast(pmcount - 1) THEN Broadcast(wst) ELSE wst
    /\ mu' = NoThread
    /\ LET g == IF obs.by # NoThread /\ pc[obs.by] = "stall"
                   /\ pmcount - 1 <= opts.MaxPending
                THEN [obs EXCEPT !.woken = TRUE]
                ELSE obs
           h == IF pmsg.w
                THEN [g EXCEPT !.dec = @ + 1, !.disp = "done", !.kind = "none"]
                ELSE g
       IN obs' = Freed(h, ToDestroy(pc[Disp] = "cb", msgp[Disp], pmsg.msg))
    /\ pc' = [pc EXCEPT ![Disp] = "idle"]
    /\ pmsg' = NoEntry
    /\ msgp' = [msgp EXCEPT ![Disp] = NULL]
    /\ resent' = FALSE
    /\ ev' = NoEvent
    /\ UNCHANGED <<nlost, opts, refs, rsub, pm, stalled, pacw, reply, acks,
                   ncalls, nmsgs>>

_handleAsyncReply ==
    \/ \E tk \in Tokens, kind \in ReplyKinds : ReplyArrives(tk, kind)
    \/ ReplyTooShort
    \/ ReplyDone

\* ------------------------------------------------------------ js_PublishAsyncComplete

\* lines 820-837: nothing is pending and the call returns at once, or the
\* caller registers as a waiter and waits on js->cond
CompleteEnters(u) ==
    /\ u \in Users
    /\ pc[u] = "idle"
    /\ mu = NoThread
    /\ IF ~rsub \/ pmcount = 0
       THEN /\ ev' = [op |-> "complete", res |-> "OK", list |-> {}, waited |-> FALSE]
            /\ UNCHANGED <<refs, pacw, pc, wst>>
       ELSE /\ refs' = _retain(refs)
            /\ pacw' = pacw + 1
            /\ pc' = [pc EXCEPT ![u] = "complete"]
            /\ wst' = [wst EXCEPT ![u] = "waiting"]
            /\ ev' = NoEvent
    /\ UNCHANGED <<nlost, opts, mu, rsub, pm, pmcount, stalled, msgp, reply, pmsg,
                   resent, acks, ncalls, nmsgs, obs>>

\* lines 831-846: the waiter is woken (or its wait times out), has the mutex
\* again and checks the pending count
CompleteWakes(u) ==
    /\ pc[u] = "complete"
    /\ mu = NoThread
    /\ \E s \in WaitResults(wst[u]) :
         IF CompleteGoesOn(s, pmcount)
         THEN /\ wst' = [wst EXCEPT ![u] = "waiting"]
              /\ ev' = NoEvent
              /\ UNCHANGED <<refs, pacw, pc>>
         ELSE /\ wst' = [wst EXCEPT ![u] = "none"]
              /\ pacw' = pacw - 1
              /\ refs' = refs - 1
              /\ pc' = [pc EXCEPT ![u] = "idle"]
              /\ ev' = [op |-> "complete", res |-> CompleteStatus(s, pmcount),
                        list |-> {}, waited |-> TRUE]
    /\ UNCHANGED <<nlost, opts, mu, rsub, pm, pmcount, stalled, msgp, reply, pmsg,
                   resent, acks, ncalls, nmsgs, obs>>

js_PublishAsyncComplete(u) ==
    \/ CompleteEnters(u)
    \/ CompleteWakes(u)

\* ------------------------------------------------------------ js_PublishAsyncGetPendingList

\* the messages of the map
Messages(map) == {map[t].msg : t \in {x \in Tokens : map[x] # NoEntry}}

\* the history after the drain: the entries are removed in the order of the
\* iteration, each with a decrement while the pending count is positive
Drained(h, map, count) ==
    IF \E t \in Tokens : map[t].w
    THEN LET t == CHOOSE x \in Tokens : map[x].w
             before == Cardinality({x \in Tokens : x < t /\ map[x] # NoEntry})
         IN Removed(h, map[t], IF count - before > 0 THEN 1 ELSE 0)
    ELSE h

\* lines 868-877: the message of the observed call is put in the list
Listed(h, list) ==
    IF h.msg # NULL /\ h.msg \in list THEN [h EXCEPT !.listed = @ + 1] ELSE h

\* lines 858-883. The map must exist: natsStrHash_Count reads js->pm.
js_PublishAsyncGetPendingList(u) ==
    /\ u \in Users
    /\ pc[u] = "idle"
    /\ mu = NoThread
    /\ rsub
    /\ IF Count(pm) = 0
       THEN /\ ev' = [op |-> "pending", res |-> "NOT_FOUND", list |-> {},
                      waited |-> FALSE]
            /\ UNCHANGED <<pm, pmcount, obs>>
       ELSE \E allocOK \in BOOLEAN :
              IF allocOK
              THEN /\ ev' = [op |-> "pending", res |-> "OK",
                             list |-> Messages(pm), waited |-> FALSE]
                   /\ pm' = [t \in Tokens |-> NoEntry]
                   /\ pmcount' = DrainCount(pmcount, Count(pm))
                   /\ obs' = Listed(Drained(obs, pm, pmcount), Messages(pm))
              ELSE /\ ev' = [op |-> "pending", res |-> "ERR", list |-> {},
                             waited |-> FALSE]
                   /\ UNCHANGED <<pm, pmcount, obs>>
    /\ UNCHANGED <<nlost, opts, mu, refs, rsub, stalled, pacw, pc, wst, msgp,
                   reply, pmsg, resent, acks, ncalls, nmsgs>>

\* ------------------------------------------------------------ the condition variable

\* a wait on a condition variable may return without a signal
SpuriousWakeup(t) ==
    /\ wst[t] = "waiting"
    /\ wst' = [wst EXCEPT ![t] = "signalled"]
    /\ ev' = NoEvent
    /\ UNCHANGED <<nlost, opts, mu, refs, rsub, pm, pmcount, stalled, pacw, pc,
                   msgp, reply, pmsg, resent, acks, ncalls, nmsgs, obs>>

\* ------------------------------------------------------------ specification

\* the pipeline of a context that its user keeps
Next ==
    \/ \E c \in Threads : js_PublishMsgAsync(c) /\ UNCHANGED rest
    \/ _handleAsyncReply /\ UNCHANGED rest
    \/ \E u \in Users : js_PublishAsyncComplete(u) /\ UNCHANGED rest
    \/ \E u \in Users : js_PublishAsyncGetPendingList(u) /\ UNCHANGED rest
    \/ \E t \in Threads : SpuriousWakeup(t) /\ UNCHANGED rest

Spec == Init /\ [][Next]_vars

\* ------------------------------------------------------------ properties

\* the publishers in the stall wait of _registerPubMsg
StalledCallers == {c \in Threads : pc[c] = "stall"}

\* the ErrHandler is running (possibly inside its own js_PublishMsgAsync call)
InHandler == pc[Disp] \in {"cb", "stall", "send", "fail"}

\* C1: a call that returns success and whose entry is dispatched by
\* _handleAsyncReply incremented the pending count once and had it decremented
\* once, at the end of that dispatch and not before; its entry was inserted
\* once and removed once, by that dispatch, and was in the map in between; no
\* entry is removed before it is inserted. Over all calls: every unit of the
\* pending count stands for an entry of the map, a stalled publisher, a
\* dispatch in progress or an entry overwritten under its token.
PendingCountedOnce ==
    /\ pmcount = Count(pm) + Cardinality(StalledCallers)
                 + (IF pmsg # NoEntry THEN 1 ELSE 0) + nlost
    /\ obs.rem <= obs.ins
    /\ obs.ins <= 1
    /\ obs.res # "NONE" => obs.inc = 1
    /\ obs.disp # "no" => obs.ins = 1 /\ obs.rem = 1
    /\ (obs.disp = "rem" /\ obs.res \in {"RUN", "OK"}) => obs.dec = 0
    /\ (obs.disp = "done" /\ obs.res = "OK") => obs.dec = 1
    /\ (obs.ins = 1 /\ obs.rem = 0 /\ ~obs.lost) =>
           \E t \in Tokens : pm[t].w /\ pm[t].msg = obs.msg

\* C1, reached: a call returned success, its ack was dispatched and nothing is
\* pending any more
AckedPublish ==
    /\ obs.res = "OK"
    /\ obs.disp = "done"
    /\ obs.kind = "none"
    /\ obs.dec = 1
    /\ ~obs.xfail
    /\ pmcount = 0

\* C2: when js_PublishAsyncComplete returns success the pending count is zero
\* and the inflight map is empty
CompleteMeansNothingPending ==
    (ev.op = "complete" /\ ev.res = "OK") => (pmcount = 0 /\ Count(pm) = 0)

\* C2, reached: js_PublishAsyncComplete returned success after it waited, and
\* every call of the behaviour had been made
CompletedAfterWait ==
    /\ ev.op = "complete"
    /\ ev.res = "OK"
    /\ ev.waited
    /\ ncalls = MaxCalls

\* C3: a caller blocked in js_PublishAsyncComplete is woken once the pending
\* count is zero, whichever operation lowered it
WaiterWokenAtZero ==
    \A u \in Users : (pc[u] = "complete" /\ pmcount = 0) => wst[u] = "signalled"

\* C4: a stalled call whose wait reaches its deadline fails with Timeout; it
\* takes back its unit of the pending count and of the stalled count, its
\* message is not in the map and its caller's pointer still holds the message
StalledCallFails ==
    /\ [](obs.res = "TIMEOUT" =>
             /\ obs.inc = 1 /\ obs.dec = 1
             /\ obs.ins = 0 /\ obs.rem = 0
             /\ obs.msg # NULL /\ obs.ptr = obs.msg
             /\ obs.msg \notin Messages(pm))
    /\ [](stalled = Cardinality(StalledCallers))
    /\ [][\A c \in Threads :
            (pc[c] = "stall" /\ wst[c] = "waiting" /\ pc'[c] # "stall") =>
                /\ pmcount' = pmcount - 1
                /\ stalled' = stalled - 1
                /\ pm' = pm
                /\ Running(obs, c) => obs'.res = "TIMEOUT"]_vars

\* C4, reached: a call failed with Timeout while MaxPending publishes, all of
\* them unacknowledged, are what is pending
StalledOut ==
    /\ obs.res = "TIMEOUT"
    /\ opts.MaxPending > 0
    /\ pmcount = opts.MaxPending
    /\ Count(pm) = opts.MaxPending

\* C5: the inflight map never has more entries than the pending count
InflightWithinPending == Count(pm) <= pmcount

\* C5, reached: the ErrHandler runs for a removed entry while a publisher is
\* stalled, the pending count being above the size of the map
HandlerAndStalled ==
    /\ InHandler
    /\ StalledCallers \cap Users # {}
    /\ Count(pm) < pmcount

\* C6: a call whose transport publish failed and that found its token in the
\* map returns the error and leaves the message to its caller: the pointer is
\* not cleared and the library does not destroy the message (the ErrHandler,
\* when it is the caller, leaves it in pae.Msg, where the library takes it back)
FailedPublishLeavesMessage ==
    (obs.xfail /\ obs.res = "ERR") =>
        (obs.ptr = obs.msg /\ (~obs.cbk => obs.freed = 0))

\* C7: a call returns success after a failed transport publish only when
\* _handleAsyncReply has dispatched the reply for its entry
SwallowedOnlyAfterDispatch ==
    (obs.xfail /\ obs.res = "OK") => obs.disp # "no"

\* C8 as stated: for a dispatched reply the ErrHandler is invoked exactly when
\* one is configured and the reply is a no-responders reply or JSON with an
\* error object
HandlerOnlyForServerErrors ==
    obs.disp = "rem" =>
        (obs.cb = 1 <=> (opts.ErrHandler /\ obs.kind \in {"noresp", "apierr"}))

\* C8: for a dispatched reply the ErrHandler is invoked exactly when one is
\* configured and the reply is a no-responders reply, a payload that does not
\* parse, or JSON with an error object; never for an ack, and at most once for
\* an entry
HandlerForEveryError ==
    /\ obs.cb <= 1
    /\ obs.cb = 1 => obs.disp # "no"
    /\ obs.disp = "rem" =>
           /\ obs.cb = 1 <=> (opts.ErrHandler /\ obs.kind \in {"noresp", "badjson", "apierr"})
           /\ obs.cb = 1 <=> InHandler
           /\ obs.kind = "ack" => obs.cb = 0

\* C8, reached: the ErrHandler runs for a reply that does not parse
HandlerForBadJSON ==
    /\ obs.disp = "rem"
    /\ obs.kind = "badjson"
    /\ obs.cb = 1
    /\ pc[Disp] = "cb"

\* C9: the ErrHandler runs without the mutex; when its js_PublishMsgAsync call
\* succeeded, the end of the dispatch decrements the pending count once,
\* leaves the map alone and destroys no message
RepublishIsIndependent ==
    /\ [](InHandler => mu # Disp)
    /\ [][(pc[Disp] = "cb" /\ pc'[Disp] = "idle" /\ resent /\ msgp[Disp] = NULL) =>
            /\ pmcount' = pmcount - 1
            /\ pm' = pm
            /\ obs'.freed = obs.freed]_vars

\* C9, reached: the dispatch is over, the message published again by the
\* ErrHandler is in the map, not destroyed, and it is all that is pending
RepublishedStays ==
    /\ ncalls = 2
    /\ nmsgs = 1
    /\ pc[Disp] = "idle"
    /\ pmsg = NoEntry
    /\ obs.res = "OK"
    /\ obs.cbk
    /\ obs.freed = 0
    /\ \E t \in Tokens : pm[t].w /\ pm[t].msg = 1
    /\ pmcount = 1

\* C10 as stated: after js_PublishAsyncGetPendingList returns success the
\* pending count is zero
DrainZeroesPending ==
    (ev.op = "pending" /\ ev.res = "OK") => pmcount = 0

\* C10: js_PublishAsyncGetPendingList returns NotFound exactly when the map is
\* empty, and changes nothing then; when it returns success the map is empty,
\* the list holds the messages that were in the map and the pending count is
\* lower by their number
DrainTakesEntries ==
    [][ev'.op = "pending" =>
          /\ ev'.res = "NOT_FOUND" <=> Count(pm) = 0
          /\ ev'.res # "OK" => (pm' = pm /\ pmcount' = pmcount /\ ev'.list = {})
          /\ ev'.res = "OK" =>
                /\ Count(pm') = 0
                /\ ev'.list = Messages(pm)
                /\ Cardinality(ev'.list) = Count(pm)
                /\ pmcount' = pmcount - Count(pm)]_vars

\* C10, reached: js_PublishAsyncGetPendingList returned the messages of the
\* map and something is still pending
DrainedButPending ==
    /\ ev.op = "pending"
    /\ ev.res = "OK"
    /\ ev.list # {}
    /\ Count(pm) = 0
    /\ pmcount > 0

\* nothing is in progress: every reply on the wire has been dispatched and no
\* thread is inside a call or a dispatch
Quiet ==
    /\ acks = {}
    /\ pmsg = NoEntry
    /\ \A t \in Threads : pc[t] = "idle"

\* C11: a message whose entry is overwritten by a publish that drew the same
\* token is destroyed by the library, and the pending count comes back to the
\* size of the map once every outstanding reply has been dispatched
OverwrittenIsDestroyed ==
    /\ obs.lost => obs.freed = 1
    /\ Quiet => pmcount = Count(pm)

\* C34: with MaxPending 1, a js_PublishMsgAsync made from inside the
\* ErrHandler while the message being handled was the only one in flight (the
\* map is empty, the pending count is that message and the new call, and no
\* other call is going on) is never in the stall wait.
RepublishNotStalled ==
    ~(/\ opts.MaxPending = 1 /\ pc[Disp] = "stall"
      /\ Count(pm) = 0 /\ pmcount = 2 /\ stalled = 1
      /\ \A c \in Users : pc[c] = "idle")

\* C35: the stalled count is the number of publishers in the stall wait of
\* _registerPubMsg, pacw is the number of callers waiting in
\* js_PublishAsyncComplete, and neither they nor the pending count are ever
\* negative.
CountsMatchWaiters ==
    /\ stalled = Cardinality({c \in Threads : pc[c] = "stall"})
    /\ pacw = Cardinality({c \in Threads : pc[c] = "complete"})
    /\ stalled >= 0 /\ pacw >= 0 /\ pmcount >= 0
    /\ (\A c \in Threads : pc[c] \notin {"stall", "complete"})
         => stalled = 0 /\ pacw = 0

\* a publisher is in the stall wait while a caller waits in
\* js_PublishAsyncComplete
StalledAndWaiting ==
    /\ stalled = 1 /\ pacw = 1 /\ pmcount >= 2
    /\ \E c \in Threads, u \in Users : pc[c] = "stall" /\ pc[u] = "complete"

\* C36: the message of a call is never destroyed twice, nor destroyed and
\* handed back in a list, nor handed back in two lists; once it is destroyed or
\* listed the library holds it no more (not in the map, not in a dispatch),
\* unless a call that publishes it is still going on; when the call of a user
\* failed the message is the caller's alone; when the call succeeded and
\* nothing is in progress the message is in exactly one place: in the map,
\* destroyed, or in a list.
MessageHasOneOwner ==
    LET m == obs.msg
        inCall == \E c \in Threads :
                     pc[c] \in {"stall", "send", "fail"} /\ msgp[c] = m
        held == Cardinality({t \in Tokens : pm[t].msg = m})
                  + (IF \/ pc[Disp] = "dec" /\ pmsg.msg = m
                        \/ pc[Disp] = "cb" /\ msgp[Disp] = m
                     THEN 1 ELSE 0)
    IN obs.res \notin {"NONE", "RUN"} =>
         /\ obs.freed + obs.listed <= 1
         /\ obs.freed + obs.listed = 1 /\ ~inCall => held = 0
         /\ obs.res # "OK" /\ ~obs.cbk => obs.freed + obs.listed + held = 0
         /\ obs.res = "OK" /\ Quiet => obs.freed + obs.listed + held = 1

\* C31: a reply whose subject is not longer than the reply prefix, or whose
\* token is not in the map, is dropped: the pending count, the map, the stalled
\* and waiter counts are unchanged, no waiter is woken, the ErrHandler is not
\* invoked and the dispatcher is ready for the next reply.
DroppedReplyChangesNothing ==
    [][\/ ev'.op = "short"
       \/ \E tk \in acks : pm[tk] = NoEntry /\ acks' = acks \ {tk}
       => /\ UNCHANGED <<pmcount, pm, stalled, pacw, wst, mu, refs, msgp, obs>>
          /\ pc[Disp] = "idle" /\ pc' = pc]_vars

\* a reply for a token that is no longer in the map was dropped while a caller
\* of js_PublishAsyncComplete was waiting
DroppedWhileWaiting == ev.op = "drop" /\ pacw > 0 /\ pmcount > 0

\* a reply with too short a subject was dropped while a message was in flight
ShortReplyDropped == ev.op = "short" /\ pmcount > 0 /\ Count(pm) > 0

\* ---------------------------------------------------------------------------
\* Stalled publishers: a context with MaxPending 1 that has one message in
\* flight
\* ---------------------------------------------------------------------------

\* the context after one js_PublishMsgAsync call has returned NATS_OK: its
\* message is in the map under token 1 and the reply is on its way
InitStall ==
    /\ opts = [MaxPending |-> 1, ErrHandler |-> FALSE]
    /\ mu = NoThread
    /\ refs = 2
    /\ rsub = TRUE
    /\ pm = [t \in Tokens |-> IF t = 1 THEN [msg |-> 1, w |-> FALSE] ELSE NoEntry]
    /\ pmcount = 1
    /\ stalled = 0
    /\ pacw = 0
    /\ pc = [t \in Threads |-> "idle"]
    /\ wst = [t \in Threads |-> "none"]
    /\ msgp = [t \in Threads |-> NULL]
    /\ reply = [t \in Threads |-> NULL]
    /\ pmsg = NoEntry
    /\ resent = FALSE
    /\ acks = {1}
    /\ ncalls = 0
    /\ nmsgs = 1
    /\ nlost = 0
    /\ ev = NoEvent
    /\ obs = NoObs
    /\ life = NewLife
    /\ ack = NewAck("none", FALSE, FALSE, FALSE, FALSE)
    /\ sub = NewSub([f \in SubFields |-> FALSE])
    /\ cfg = NewCfg(CfgBase(FALSE))
    /\ fetch = NewFetch(0, 0, FALSE, FALSE)
    /\ hb = NewHb(FALSE, 0, FALSE)
    /\ meta = NewMeta(<<>>, {})
    /\ lazy = NewLazy

NextStall ==
    \/ \E c \in Users : RegisterStalls(c) /\ UNCHANGED rest
    \/ \E c \in Users : RegisterInserts(c) /\ UNCHANGED rest
    \/ \E c \in Users : StallWakes(c) /\ UNCHANGED rest
    \/ \E c \in Users : TransportPublish(c) /\ UNCHANGED rest
    \/ \E c \in Users : PublishFailed(c) /\ UNCHANGED rest
    \/ _handleAsyncReply /\ UNCHANGED rest
    \/ \E u \in Users : js_PublishAsyncComplete(u) /\ UNCHANGED rest
    \/ \E u \in Users : js_PublishAsyncGetPendingList(u) /\ UNCHANGED rest
    \/ \E t \in Threads : SpuriousWakeup(t) /\ UNCHANGED rest

SpecStall == InitStall /\ [][NextStall]_vars

\* C28 as stated: a publisher that was in the stall wait when a dispatch
\* lowered the pending count to MaxPending or below does not time out (the
\* failures of natsStrHash_Set and of the transport are left aside).
WokenPublisherSucceeds == obs.woken => obs.res # "TIMEOUT"

\* What does hold between the dispatcher and the stalled publishers: the
\* dispatch that lowers the pending count to MaxPending or below
\* wakes every publisher that is in the stall wait; a woken publisher that
\* takes the mutex again checks the count: if it is at MaxPending or below it
\* stores its message (or fails to, and returns that error), and if another
\* publisher has raised it in between it waits again; a publisher times out
\* only while it is waiting, never when it was woken and not yet served.
WokenPublisherRechecks ==
    /\ [][pmcount' = pmcount - 1 /\ pc[Disp] # pc'[Disp]
            /\ pmcount' <= opts.MaxPending
          => \A t \in Threads : pc[t] = "stall" => wst'[t] = "signalled"]_vars
    /\ [][~obs.woken /\ obs'.woken => wst'[obs.by] = "signalled"]_vars
    /\ [][\A t \in Threads :
            pc[t] = "stall" /\ wst[t] = "signalled"
              /\ (pc'[t] # "stall" \/ wst'[t] # "signalled")
            => IF pmcount <= opts.MaxPending
               THEN \/ pc'[t] = "send" /\ pm'[reply[t]].msg = msgp[t]
                       /\ pmcount' = pmcount
                    \/ pc'[t] = "idle" /\ pmcount' = pmcount - 1
                       /\ pm' = pm /\ (Running(obs, t) => obs'.res = "ERR")
               ELSE pc'[t] = "stall" /\ wst'[t] = "waiting"]_vars
    /\ [][obs.res = "RUN" /\ obs'.res = "TIMEOUT" => wst[obs.by] = "waiting"]_vars

\* a publisher that a dispatch woke from the stall wait has stored its message
\* and returned NATS_OK
WokenPublisherPublished ==
    obs.woken /\ obs.res = "OK" /\ obs.ins = 1 /\ obs.inc = 1

\* a publisher that a dispatch woke found the room taken by another publisher,
\* waited again and timed out
WokenPublisherTimedOut ==
    obs.woken /\ obs.res = "TIMEOUT" /\ obs.ins = 0 /\ stalled > 0

\* C33: when two publishers are in the stall wait and every message of the
\* map has been acknowledged and dispatched (the map is empty, no reply is on
\* its way, the dispatcher is idle), one of them can go on: the pending count
\* is at MaxPending or below and it has been woken.
StalledReleasedWhenAcked ==
    /\ Cardinality(StalledCallers) >= 2
    /\ Count(pm) = 0 /\ acks = {} /\ pc[Disp] = "idle"
    => \E c \in StalledCallers :
         wst[c] = "signalled" /\ pmcount <= opts.MaxPending

\* ---------------------------------------------------------------------------
\* Lifetime of the context: js_retain, js_release, jsCtx_Destroy, _subComplete
\* ---------------------------------------------------------------------------

\* subscriptions created through the context that hold a reference at a time
MaxSubs == 1

\* the context can be used: it was not freed and its count is above zero
Alive == life.alive /\ refs > 0

FreeAtOne(r) == r <= 1

\* js_release: doFree = (--(js->refs) == 0), seen from the count after the
\* decrement
DoFree(r) == r = 0

\* jsCtx_Destroy: under the lock the reply subscription is destroyed and
\* forgotten and every message of the map is destroyed; the pending count is
\* left as it is and nobody is woken up.  Then the user's reference is released.
\* The user calls it once, from a thread that is in no other call, and while no
\* js_PublishMsgAsync call is between its registration and its return without
\* the protection of a reference.
jsCtx_Destroy(u) ==
    /\ Alive
    /\ life.user
    /\ pc[u] = "idle"
    /\ mu = NoThread
    /\ \A v \in Users : pc[v] \notin {"send", "fail"}
    /\ life' = [life EXCEPT !.user = FALSE, !.closing = rsub]
    /\ rsub' = FALSE
    /\ pm' = [tk \in Tokens |-> NoEntry]
    /\ refs' = refs - 1
    /\ obs' = LET ws == {tk \in Tokens : pm[tk].w}
               IN IF ws = {} THEN obs
                  ELSE LET e == pm[CHOOSE tk \in ws : TRUE]
                       IN Freed(Removed(obs, e, 0), e.msg)
    /\ ev' = NoEvent
    /\ UNCHANGED <<opts, mu, pmcount, stalled, pacw, pc, wst, msgp, reply,
                   pmsg, resent, acks, ncalls, nmsgs, nlost>>
    /\ UNCHANGED <<ack, sub, cfg, fetch, hb, meta, lazy>>

\* _subComplete: the completion callback of the reply subscription, which runs
\* once the subscription is destroyed and its last message callback returned
_subComplete ==
    /\ Alive
    /\ life.closing
    /\ pc[Disp] = "idle"
    /\ mu = NoThread
    /\ life' = [life EXCEPT !.closing = FALSE, !.hooks = @ + 1]
    /\ refs' = refs - 1
    /\ ev' = NoEvent
    /\ UNCHANGED <<opts, mu, rsub, pm, pmcount, stalled, pacw, pc, wst, msgp,
                   reply, pmsg, resent, acks, ncalls, nmsgs, nlost, obs>>
    /\ UNCHANGED <<ack, sub, cfg, fetch, hb, meta, lazy>>

\* _subscribe: a new jsSub retains the context
Subscribed ==
    /\ Alive
    /\ life.user
    /\ life.subs < MaxSubs
    /\ mu = NoThread
    /\ life' = [life EXCEPT !.subs = @ + 1]
    /\ refs' = refs + 1
    /\ ev' = NoEvent
    /\ UNCHANGED <<opts, mu, rsub, pm, pmcount, stalled, pacw, pc, wst, msgp,
                   reply, pmsg, resent, acks, ncalls, nmsgs, nlost, obs>>
    /\ UNCHANGED <<ack, sub, cfg, fetch, hb, meta, lazy>>

\* jsSub_free: the subscription is freed and gives its reference back
jsSub_free ==
    /\ Alive
    /\ life.subs > 0
    /\ mu = NoThread
    /\ life' = [life EXCEPT !.subs = @ - 1]
    /\ refs' = refs - 1
    /\ ev' = NoEvent
    /\ UNCHANGED <<opts, mu, rsub, pm, pmcount, stalled, pacw, pc, wst, msgp,
                   reply, pmsg, resent, acks, ncalls, nmsgs, nlost, obs>>
    /\ UNCHANGED <<ack, sub, cfg, fetch, hb, meta, lazy>>

\* _freeContext: the release that brought the count to zero frees the context
\* and releases the connection
_freeContext ==
    /\ life.alive
    /\ DoFree(refs)
    /\ life' = [life EXCEPT !.alive = FALSE, !.ncrefs = @ - 1]
    /\ ev' = NoEvent
    /\ UNCHANGED <<opts, mu, refs, rsub, pm, pmcount, stalled, pacw, pc, wst,
                   msgp, reply, pmsg, resent, acks, ncalls, nmsgs, nlost, obs>>
    /\ UNCHANGED <<ack, sub, cfg, fetch, hb, meta, lazy>>

\* a js_PublishMsgAsync call whose publish failed locks the context after it
\* was freed: the behaviour is undefined, the call ends in some way
UseAfterFree(c) ==
    /\ ~life.alive
    /\ pc[c] = "fail"
    /\ life' = [life EXCEPT !.uaf = TRUE]
    /\ pc' = [pc EXCEPT ![c] = "idle"]
    /\ msgp' = [msgp EXCEPT ![c] = NULL]
    /\ reply' = [reply EXCEPT ![c] = NULL]
    /\ ev' = NoEvent
    /\ UNCHANGED <<opts, mu, refs, rsub, pm, pmcount, stalled, pacw, wst,
                   pmsg, resent, acks, ncalls, nmsgs, nlost, obs>>
    /\ UNCHANGED <<ack, sub, cfg, fetch, hb, meta, lazy>>

\* a thread may take a step of a call: the transport publish does not touch
\* the context, every other step needs it; a new call is made, and a new reply
\* is delivered, only while the user has not destroyed the context
MayStep(c) ==
    /\ pc[c] = "send" \/ Alive
    /\ life.user \/ pc[c] \notin {"idle", "cb"}

InitLife ==
    /\ Init
    /\ opts.MaxPending = 1
    /\ opts.ErrHandler

NextLife ==
    \/ \E c \in Threads : MayStep(c) /\ js_PublishMsgAsync(c) /\ UNCHANGED rest
    \/ Alive /\ (life.user \/ pc[Disp] # "idle") /\ _handleAsyncReply
       /\ UNCHANGED rest
    \/ \E u \in Users : MayStep(u) /\ js_PublishAsyncComplete(u) /\ UNCHANGED rest
    \/ \E t \in Threads : Alive /\ SpuriousWakeup(t) /\ UNCHANGED rest
    \/ \E u \in Users : jsCtx_Destroy(u)
    \/ _subComplete
    \/ Subscribed
    \/ jsSub_free
    \/ _freeContext
    \/ \E u \in Users : UseAfterFree(u)

SpecLife == InitLife /\ [][NextLife]_vars

\* the references that are held: the user's, the one of the completion hook of
\* the reply subscription, one per JetStream subscription, one per stalled
\* publisher and one per js_PublishAsyncComplete waiter
Holders ==
    (IF life.user THEN 1 ELSE 0)
    + (IF rsub \/ life.closing THEN 1 ELSE 0)
    + life.subs
    + Cardinality(StalledCallers)
    + Cardinality({u \in Users : pc[u] = "complete"})

\* C12: the context holds one reference on the connection until _freeContext
\* releases it, once; the context is freed only with its count at zero, that is
\* after jsCtx_Destroy and after the completion hook, the subscriptions, the
\* stalled publishers and the js_PublishAsyncComplete waiters have released;
\* the completion callback runs at most once and lowers the count by one
ConnectionReleasedOnce ==
    /\ [](life.ncrefs = IF life.alive THEN 1 ELSE 0)
    /\ [](life.alive => refs = Holders)
    /\ [](~life.alive => refs = 0 /\ Holders = 0)
    /\ [](life.hooks <= 1)
    /\ [][life'.ncrefs # life.ncrefs =>
            /\ life'.ncrefs = life.ncrefs - 1
            /\ refs = 0
            /\ Holders = 0]_vars
    /\ [][life'.hooks # life.hooks =>
            /\ refs' = refs - 1
            /\ ~life'.closing
            /\ ~rsub']_vars

\* the context was freed after the completion callback of a reply subscription
\* it had created gave its reference back
FreedAfterHook == ~life.alive /\ life.ncrefs = 0 /\ life.hooks = 1 /\ nmsgs > 0

\* the threads that wait on js->cond, and the dispatcher being in the
\* ErrHandler (which may be in a js_PublishMsgAsync call of its own)
Waiting == {t \in Threads : pc[t] \in {"stall", "complete"}}

InErrHandler == pc[Disp] \in {"cb", "stall", "send", "fail"}

\* what holds of the two waits: the thread takes a reference when it starts to
\* wait and gives it back when it stops, and the context is there meanwhile
WaitsRetain ==
    /\ [](Waiting # {} \/ InErrHandler => life.alive /\ refs >= 1)
    /\ [][\A t \in Threads :
            /\ t \notin Waiting /\ pc'[t] \in {"stall", "complete"}
               => refs' = refs + 1 + (IF rsub' /\ ~rsub THEN 1 ELSE 0)
            /\ t \in Waiting /\ pc'[t] \notin {"stall", "complete"}
               => refs' = refs - 1]_vars

\* C29 as stated: the two waits and the invocation of the ErrHandler each
\* take a reference before the mutex is released and give it back at the end.
EveryUnlockRetains ==
    /\ WaitsRetain
    /\ [][/\ pc[Disp] = "idle" /\ pc'[Disp] = "cb" => refs' = refs + 1
          /\ pc[Disp] = "cb" /\ pc'[Disp] = "idle" => refs' = refs - 1]_vars

\* C29: the stall wait and the wait of js_PublishAsyncComplete take a
\* reference before the mutex is released and give it back at the end; the
\* dispatcher takes none to invoke the ErrHandler: the count stays as it is,
\* and it is at least 1 because the reply subscription holds its reference
\* until _subComplete, which runs after the handler has returned.
WaitsRetainHandlerBorrows ==
    /\ WaitsRetain
    /\ [](InErrHandler => rsub \/ life.closing)
    /\ [][/\ pc[Disp] = "idle" /\ pc'[Disp] = "cb" => refs' = refs /\ rsub
          /\ pc[Disp] = "cb" /\ pc'[Disp] = "idle" => refs' = refs
          /\ InErrHandler => life'.hooks = life.hooks]_vars

\* the context was destroyed while the ErrHandler runs: the reference of the
\* reply subscription is the only one left
HandlerOnSubscriptionReference ==
    pc[Disp] = "cb" /\ ~life.user /\ life.closing /\ refs = 1 /\ life.alive

\* ---------------------------------------------------------------------------
\* Acknowledgements: _autoAckCB and _ackMsg
\* ---------------------------------------------------------------------------

\* _ackMsg calls made on the message
MaxAckCalls == 3

AckOps == {"Ack", "AckSync", "Nak", "InProgress", "Term"}

\* the ackType each wrapper of _ackMsg passes (lines 2202-2230)
Body(op) ==
    CASE op \in {"Ack", "AckSync"} -> "+ACK"
      [] op = "Nak" -> "-NAK"
      [] op = "InProgress" -> "+WPI"
      [] op = "Term" -> "+TERM"

\* what the connection can do with the payload: natsConnection_PublishString
\* publishes it or fails; natsConnection_RequestString publishes it and gets
\* the reply, publishes it and gets none in time, or fails before publishing
Outcomes(op) ==
    IF op = "AckSync" THEN {"OK", "TIMEOUT", "ERR"} ELSE {"OK", "ERR"}

SnapshotsNoneIfLong(r) == IF r = "short" THEN {"copy"} ELSE {"none"}

\* _autoAckCB lines 984-996: the copy of msg->reply taken before the callback
Snapshots(r) ==
    CASE r = "none" -> {"none"}
      [] r = "short" -> {"copy"}
      [] r = "long" -> {"copy", "fail"}

SetAckedNever(s, inProgress) == FALSE

SetAckedOnOK(s, inProgress) == s = "OK"

\* _ackMsg lines 2196-2197: the message is marked acked
SetAcked(s, inProgress) == s = "OK" /\ ~inProgress

\* _ackMsg lines 2157-2167: the call returns s before it publishes anything
EarlyReturn(a) ==
    IF a.acked THEN "OK"
    ELSE IF ~a.bound \/ a.reply = "none" THEN "ILLEGAL_STATE"
    ELSE "GOON"

\* the subscription's callback is invoked with the message; _autoAckCB first
\* copies the reply subject
Delivered ==
    /\ ack.cb = "new"
    /\ \E c \in (IF ack.auto THEN Snapshots(ack.reply) ELSE {"none"}) :
         ack' = [ack EXCEPT !.cb = "in", !.snap = c]
    /\ UNCHANGED <<pipe, life, sub, cfg, fetch, hb, meta, lazy>>

\* the user's callback returns; _autoAckCB publishes +ACK to its copy of the
\* reply subject if it has one, and ignores the status of the publish
CallbackReturns ==
    /\ ack.cb = "in"
    /\ ack' = [ack EXCEPT
                 !.cb = "out",
                 !.sent = IF ack.auto /\ ack.snap = "copy"
                          THEN Append(@, [body |-> "+ACK", by |-> "auto",
                                          res |-> "NONE"])
                          ELSE @]
    /\ UNCHANGED <<pipe, life, sub, cfg, fetch, hb, meta, lazy>>

\* the user destroys the message, in the callback or later
DestroyMsg ==
    /\ ack.cb # "new"
    /\ ~ack.gone
    /\ ack' = [ack EXCEPT !.gone = TRUE]
    /\ UNCHANGED <<pipe, life, sub, cfg, fetch, hb, meta, lazy>>

\* _ackMsg, called through the wrapper op on the message the user holds; out is
\* what the connection does with the payload
_ackMsg(op, out) ==
    /\ ack.cb # "new"
    /\ ~ack.gone
    /\ ack.n < MaxAckCalls
    /\ LET early == EarlyReturn(ack)
           s == IF early = "GOON" THEN out ELSE early
           pub == early = "GOON" /\ out # "ERR"
       IN ack' = [ack EXCEPT
                    !.n = @ + 1,
                    !.sent = IF pub
                             THEN Append(@, [body |-> Body(op), by |-> "api",
                                             res |-> s])
                             ELSE @,
                    !.acked = IF early = "GOON"
                              THEN SetAcked(s, op = "InProgress")
                              ELSE @,
                    !.last = [op |-> op, res |-> s, pub |-> pub,
                              was |-> ack.acked]]
    /\ UNCHANGED <<pipe, life, sub, cfg, fetch, hb, meta, lazy>>

InitAck ==
    /\ InitPipeline
    /\ opts = [MaxPending |-> 0, ErrHandler |-> FALSE]
    /\ life = NewLife
    /\ \E r \in {"none", "short", "long"}, u, m, p, b \in BOOLEAN :
         ack = NewAck(r, u, m, p, b)
    /\ sub = NewSub([f \in SubFields |-> FALSE])
    /\ cfg = NewCfg(CfgBase(FALSE))
    /\ fetch = NewFetch(0, 0, FALSE, FALSE)
    /\ hb = NewHb(FALSE, 0, FALSE)
    /\ meta = NewMeta(<<>>, {})
    /\ lazy = NewLazy

NextAck ==
    \/ Delivered
    \/ CallbackReturns
    \/ DestroyMsg
    \/ \E op \in AckOps : \E out \in Outcomes(op) : _ackMsg(op, out)

SpecAck == InitAck /\ [][NextAck]_vars

\* the positions in ack.sent of the payloads in bodies published by who
Sent(who, bodies) ==
    {i \in DOMAIN ack.sent : ack.sent[i].by = who /\ ack.sent[i].body \in bodies}

\* C13 as stated: on an auto-ack subscription a message that has a reply
\* subject gets +ACK published exactly once, after the callback has returned
AutoAckOnce ==
    /\ ack.cb # "out" => Sent("auto", {"+ACK"}) = {}
    /\ (ack.auto /\ ack.reply # "none" /\ ack.cb = "out") =>
          Cardinality(Sent("auto", {"+ACK"})) = 1

\* C13: _autoAckCB publishes nothing before the callback has returned; after
\* it has, +ACK was published once if the subscription is an auto-ack one and
\* the copy of the reply subject taken before the callback exists, whatever the
\* callback did with the message, and was not published otherwise; the copy
\* is missing only for no reply subject, or for one of 256 characters or more
\* that could not be allocated
AutoAckOnceIfCopied ==
    /\ ack.cb # "out" => Sent("auto", {"+ACK", "-NAK", "+WPI", "+TERM"}) = {}
    /\ ack.cb = "out" =>
          /\ Sent("auto", {"-NAK", "+WPI", "+TERM"}) = {}
          /\ Cardinality(Sent("auto", {"+ACK"})) =
                IF ack.auto /\ ack.reply # "none" /\ ack.snap # "fail"
                THEN 1 ELSE 0
    /\ ack.snap = "fail" => ack.reply = "long"
    /\ (ack.auto /\ ack.reply = "short" /\ ack.cb # "new") => ack.snap = "copy"

\* the callback destroyed the message and +ACK was published after it returned
AckedDestroyedMessage ==
    /\ ack.auto /\ ack.gone /\ ack.cb = "out" /\ ack.reply = "long"
    /\ Sent("auto", {"+ACK"}) # {}

\* an _ackMsg call through one of the wrappers in ops is made in this step
AckCallOf(ops) == ack'.n = ack.n + 1 /\ ack'.last.op \in ops

\* C14 as stated: after a successful Ack, AckSync, Nak or Term every later call
\* returns OK and publishes nothing, and at most one of +ACK, -NAK, +TERM is
\* ever published through _ackMsg
OneFinalAckSent ==
    /\ [][(ack.acked /\ AckCallOf(AckOps)) =>
            (ack'.last.res = "OK" /\ ack'.sent = ack.sent)]_vars
    /\ [](Cardinality(Sent("api", {"+ACK", "-NAK", "+TERM"})) <= 1)

\* C14: the message is marked acked exactly when an Ack, AckSync, Nak or Term
\* call has succeeded; from then on every call returns OK, publishes nothing
\* and leaves the mark; at most one of +ACK, -NAK, +TERM is published by a call
\* that succeeds, and _ackMsg publishes nothing after it
OneFinalAckSucceeds ==
    /\ [][(ack.acked /\ AckCallOf(AckOps)) =>
            (ack'.last.res = "OK" /\ ack'.sent = ack.sent /\ ack'.acked)]_vars
    /\ [][(~ack.acked /\ AckCallOf(AckOps \ {"InProgress"})) =>
            (ack'.acked <=> ack'.last.res = "OK")]_vars
    /\ [](LET ok == {i \in Sent("api", {"+ACK", "-NAK", "+TERM"}) :
                       ack.sent[i].res = "OK"}
          IN /\ Cardinality(ok) <= 1
             /\ ack.acked <=> ok # {}
             /\ \A i \in ok : \A j \in Sent("api", {"+ACK", "-NAK", "+WPI", "+TERM"}) :
                   j <= i)

\* a call made after a successful one returned OK without publishing
AckedTwice ==
    /\ ack.acked /\ ack.last.was /\ ack.last.res = "OK" /\ ~ack.last.pub
    /\ Sent("api", {"+ACK", "-NAK", "+TERM"}) # {}

\* C15: an InProgress call never changes the acked mark, and publishes +WPI
\* when it succeeds on a message that is not acked; an Ack, Nak or Term call
\* that follows a successful InProgress call and succeeds publishes its payload
InProgressKeepsOpen ==
    /\ [][AckCallOf({"InProgress"}) =>
            /\ ack'.acked = ack.acked
            /\ (~ack.acked /\ ack'.last.res = "OK") =>
                  ack'.sent = Append(ack.sent, [body |-> "+WPI", by |-> "api",
                                                res |-> "OK"])]_vars
    /\ [][(ack.last.op = "InProgress" /\ ack.last.res = "OK" /\ ack.last.pub
           /\ AckCallOf({"Ack", "Nak", "Term"}) /\ ack'.last.res = "OK") =>
            ack'.sent = Append(ack.sent, [body |-> Body(ack'.last.op),
                                          by |-> "api", res |-> "OK"])]_vars

\* two InProgress calls published +WPI and the Nak that followed published -NAK
NakAfterInProgress ==
    /\ Len(ack.sent) = 3
    /\ ack.sent[1].body = "+WPI" /\ ack.sent[2].body = "+WPI"
    /\ ack.sent[3].body = "-NAK" /\ ack.sent[3].by = "api"
    /\ ack.acked

\* ---------------------------------------------------------------------------
\* Subscribing: _subscribe, _processConsInfo, jsSub_deleteConsumer
\* ---------------------------------------------------------------------------

\* the option sets of js_Subscribe, js_SubscribeSync and js_PullSubscribe, the
\* last one requiring a durable name
SubOptions == {o \in [SubFields -> BOOLEAN] : o.pull => o.durable}

\* the consumer infos a lookup can bring: without Config, or with a filter
\* subject ("none", "same" as the subject, "other"), a heartbeat, flow
\* control, a deliver subject (push), a deliver group ("none", "same" as the
\* queue name, "other"), PushBound, and a configuration that _checkConfig
\* accepts against the user's or not
Infos ==
    {NoInfo} \cup
    [config : {TRUE}, filter : {"none", "same", "other"}, hb : BOOLEAN,
     fc : BOOLEAN, push : BOOLEAN, dg : {"none", "same", "other"},
     pushBound : BOOLEAN, cfgOK : BOOLEAN]

QueueRejectsHeartbeat(o) == o.queue /\ o.hb

\* _subscribe lines 1854-1863
QueueRejects(o) == o.queue /\ (o.hb \/ o.fc)

\* _subscribe lines 1865-1876: a consumer name is known
Named(o) == o.consumer \/ o.durable \/ o.queue

\* _subscribe line 1852
ConsBound(o) == o.stream /\ o.consumer

AcceptAnyInfo(i, o) == "OK"

\* _processConsInfo: the first check that fails, "OK" if none does.  A deliver
\* group "same" can only be the name of a queue that was given.
_processConsInfo(i, o) ==
    IF i.filter = "other" THEN "filter"
    ELSE IF o.queue /\ (i.hb \/ i.fc) THEN "queue"
    ELSE IF o.pull /\ i.push THEN "push"
    ELSE IF ~o.pull /\ ~i.push THEN "pull"
    ELSE IF o.pull THEN (IF i.cfgOK THEN "OK" ELSE "config")
    ELSE IF i.dg = "none" /\ o.queue THEN "nogroup"
    ELSE IF i.dg = "none" /\ i.pushBound THEN "bound"
    ELSE IF i.dg # "none" /\ ~o.queue THEN "group"
    ELSE IF i.dg = "other" THEN "othergroup"
    ELSE IF i.cfgOK THEN "OK" ELSE "config"

\* _subscribe lines 2063-2083 (END): the call returns st; on an error the
\* subscription is destroyed, or the jsSub is freed when there is none; either
\* way jsSub_free calls js_release (line 973), whether jsi->js was set or not
End(r, st) ==
    [r EXCEPT !.pos = "done", !.res = st, !.s = st, !.info = NoInfo,
              !.nsub = IF st # "OK" /\ @ = "live" THEN "destroyed" ELSE @,
              !.jsi = IF st # "OK" /\ @ # "none" THEN "freed" ELSE @,
              !.releases = IF st # "OK" /\ r.jsi \notin {"none", "freed"}
                           THEN @ + 1 ELSE @,
              !.timer = @ /\ st = "OK",
              !.ub = @ \/ (st # "OK" /\ r.nsub = "none" /\ r.jsi = "nojs")]

\* the call is made (lines 1827-1887 up to the stream lookup)
SubscribeStarts ==
    /\ sub.pos = "none"
    /\ sub' = IF QueueRejects(sub.in) THEN End(sub, "INVALID_ARG")
              ELSE [sub EXCEPT !.pos = IF ~sub.in.stream THEN "stream"
                                       ELSE IF Named(sub.in) THEN "lookup"
                                       ELSE "process"]
    /\ UNCHANGED <<pipe, life, ack, cfg, fetch, hb, meta, lazy>>

\* _lookupStreamBySubject answers (lines 1878-1887)
LookupStream(ok) ==
    /\ sub.pos = "stream"
    /\ sub' = IF ok
              THEN [sub EXCEPT !.nstream = @ + 1,
                               !.pos = IF Named(sub.in) THEN "lookup"
                                       ELSE "process"]
              ELSE End([sub EXCEPT !.nstream = @ + 1], "ERR")
    /\ UNCHANGED <<pipe, life, ack, cfg, fetch, hb, meta, lazy>>

\* js_GetConsumerInfo answers the lookup (lines 1889-1895): an info, or a
\* status; lookupErr is set for a timeout and for JSNotEnabledErr
GetConsumerInfo(i, st) ==
    /\ sub.pos = "lookup"
    /\ st = "OK" \/ i = NoInfo
    /\ sub' = [sub EXCEPT !.lookups = @ + 1, !.pos = "process", !.s = st,
                          !.info = i, !.how = IF st = "OK" THEN "lookup" ELSE @,
                          !.lookupErr = st \in {"TIMEOUT", "NOT_ENABLED"}]
    /\ UNCHANGED <<pipe, life, ack, cfg, fetch, hb, meta, lazy>>

\* PROCESS_INFO (lines 1897-1956): the info is checked, or the lookup error is
\* returned or allowed, or a consumer is to be created
ProcessInfo ==
    /\ sub.pos = "process"
    /\ sub' =
         IF sub.how # "none"
         THEN LET c == IF sub.info.config
                       THEN _processConsInfo(sub.info, sub.in) ELSE "noconfig"
              IN IF c # "OK" THEN End([sub EXCEPT !.check = c], "ERR")
                 ELSE [sub EXCEPT !.check = c, !.hbi = sub.info.hb,
                                  !.info = NoInfo, !.pos = "alloc"]
         ELSE IF sub.s \notin {"OK", "NOT_FOUND"}
                 \/ (sub.s = "NOT_FOUND" /\ ConsBound(sub.in))
         THEN IF ~(sub.in.pull /\ sub.lookupErr /\ ConsBound(sub.in))
              THEN End(sub, sub.s)
              ELSE [sub EXCEPT !.s = "OK", !.pos = "alloc"]
         ELSE [sub EXCEPT !.s = "OK", !.create = TRUE, !.hbi = sub.in.hb,
                          !.pos = "alloc"]
    /\ UNCHANGED <<pipe, life, ack, cfg, fetch, hb, meta, lazy>>

\* the jsSub is allocated and set up (lines 1957-1990): all of it, nothing of
\* it, or the structure without its strings, its js never set
AllocJsi(got) ==
    /\ sub.pos = "alloc"
    /\ sub' = IF got = "live"
              THEN [sub EXCEPT !.jsi = got, !.retains = @ + 1, !.pos = "subscribe"]
              ELSE End([sub EXCEPT !.jsi = got], "NO_MEMORY")
    /\ UNCHANGED <<pipe, life, ack, cfg, fetch, hb, meta, lazy>>

InstalledAlways(ok, ct, timerOk) == TRUE

\* _subscribe line 2026: s == NATS_OK after the subscription and, if one is
\* wanted (ct), the timer were created
Installed(ok, ct, timerOk) == ok /\ (ct => timerOk)

\* natsConn_subscribeImpl creates the delivery subscription, and the heartbeat
\* timer is created when hbi > 0 and the connection has an async error handler
\* (lines 1992-2024)
SubscribeImpl(ok, timerOk) ==
    /\ sub.pos = "subscribe"
    /\ LET ct == sub.hbi /\ sub.in.errCb
           r == [sub EXCEPT !.nsub = IF ok THEN "live" ELSE @,
                            !.made = IF ok THEN @ + 1 ELSE @,
                            !.timer = ok /\ ct /\ timerOk]
       IN sub' = IF ~Installed(ok, ct, timerOk) THEN End(r, "ERR")
                 ELSE IF sub.create THEN [r EXCEPT !.pos = "add"]
                 ELSE End(r, "OK")
    /\ UNCHANGED <<pipe, life, ack, cfg, fetch, hb, meta, lazy>>

ExistsOnlyByName(jerr) == jerr = "NameExist"

\* _subscribe line 2035: the consumer was created by somebody else
Exists(jerr) == jerr \in {"ExistingActive", "NameExist"}

\* js_AddConsumer answers (lines 2026-2061); on success the subscription owns
\* the consumer and copies its name, which can fail
AddConsumer(jerr, dup) ==
    /\ sub.pos = "add"
    /\ LET r == [sub EXCEPT !.adds = @ + 1, !.addres = jerr]
       IN sub' = IF jerr = "OK"
                 THEN End([r EXCEPT !.dc = TRUE, !.consumer = dup],
                          IF dup THEN "OK" ELSE "NO_MEMORY")
                 ELSE IF Exists(jerr) THEN [r EXCEPT !.pos = "refetch"]
                 ELSE End(r, "ERR")
    /\ UNCHANGED <<pipe, life, ack, cfg, fetch, hb, meta, lazy>>

\* js_GetConsumerInfo answers after AddConsumer found the consumer existing
\* (lines 2038-2052): with an info the subscription is destroyed and the call
\* goes back to PROCESS_INFO
Refetch(i, ok) ==
    /\ sub.pos = "refetch"
    /\ ok \/ i = NoInfo
    /\ sub' = IF ~ok THEN End([sub EXCEPT !.lookups = @ + 1], "ERR")
              ELSE [sub EXCEPT !.lookups = @ + 1, !.info = i, !.how = "refetch",
                               !.nsub = "destroyed", !.jsi = "freed",
                               !.releases = @ + 1,
                               !.timer = FALSE, !.create = FALSE,
                               !.pos = "process"]
    /\ UNCHANGED <<pipe, life, ack, cfg, fetch, hb, meta, lazy>>

ClearNot(dc) == dc

\* jsSub_deleteConsumer line 1028: sub->jsi->dc = false
Clear(dc) == FALSE

\* jsSub_deleteConsumer lines 1019-1030, under the subscription lock: the
\* caller takes the consumer to delete if dc is set, and clears dc
TakeConsumer(who) ==
    /\ sub.pos = "done" /\ sub.res = "OK"
    /\ sub[who] = IF who = "drain" THEN "call" ELSE "idle"
    /\ sub' = [sub EXCEPT ![who] = IF sub.dc /\ sub.consumer THEN "req"
                                   ELSE "done",
                          !.dc = IF sub.dc THEN Clear(@) ELSE @]
    /\ UNCHANGED <<pipe, life, ack, cfg, fetch, hb, meta, lazy>>

\* jsSub_deleteConsumer lines 1032-1039: js_DeleteConsumer is requested
DeleteConsumer(who) ==
    /\ sub[who] = "req"
    /\ sub' = [sub EXCEPT ![who] = "done", !.dels = @ + 1]
    /\ UNCHANGED <<pipe, life, ack, cfg, fetch, hb, meta, lazy>>

\* jsSub_deleteConsumerAfterDrain lines 1052-1060: dc is read under the lock
\* the caller holds, which is then released for jsSub_deleteConsumer
DrainCompletes ==
    /\ sub.pos = "done" /\ sub.res = "OK"
    /\ sub.drain = "idle"
    /\ sub' = [sub EXCEPT !.drain = IF sub.dc THEN "call" ELSE "done"]
    /\ UNCHANGED <<pipe, life, ack, cfg, fetch, hb, meta, lazy>>

InitSub ==
    /\ InitPipeline
    /\ opts = [MaxPending |-> 0, ErrHandler |-> FALSE]
    /\ life = NewLife
    /\ ack = NewAck("none", FALSE, FALSE, FALSE, FALSE)
    /\ sub \in {NewSub(o) : o \in SubOptions}
    /\ cfg = NewCfg(CfgBase(FALSE))
    /\ fetch = NewFetch(0, 0, FALSE, FALSE)
    /\ hb = NewHb(FALSE, 0, FALSE)
    /\ meta = NewMeta(<<>>, {})
    /\ lazy = NewLazy

NextSub ==
    \/ SubscribeStarts
    \/ \E ok \in BOOLEAN : LookupStream(ok)
    \/ \E i \in Infos, st \in {"OK", "NOT_FOUND", "TIMEOUT", "NOT_ENABLED", "ERR"} :
         GetConsumerInfo(i, st)
    \/ ProcessInfo
    \/ \E got \in {"live", "none", "nojs"} : AllocJsi(got)
    \/ \E ok, timerOk \in BOOLEAN : SubscribeImpl(ok, timerOk)
    \/ \E jerr \in {"OK", "ExistingActive", "NameExist", "Other"}, dup \in BOOLEAN :
         AddConsumer(jerr, dup)
    \/ \E i \in Infos, ok \in BOOLEAN : Refetch(i, ok)
    \/ \E who \in {"unsub", "drain"} : TakeConsumer(who) \/ DeleteConsumer(who)
    \/ DrainCompletes

SpecSub == InitSub /\ [][NextSub]_vars

RaceBindsToExisting ==
    /\ [][(sub.pos = "add" /\ sub' # sub
           /\ sub'.addres \in {"ExistingActive", "NameExist"}) =>
            (sub'.pos = "refetch" /\ sub'.nsub = "live")]_vars
    /\ [][(sub.pos = "refetch" /\ sub' # sub) =>
            /\ sub'.lookups = sub.lookups + 1
            /\ sub'.nsub = "destroyed"
            /\ \/ sub'.pos = "process" /\ sub'.how = "refetch"
                  /\ sub'.jsi = "freed" /\ ~sub'.create
               \/ sub'.pos = "done" /\ sub'.res # "OK"]_vars
    /\ [](sub.how = "refetch" => ~sub.dc /\ sub.adds = 1 /\ sub.dels = 0)
    /\ []((sub.how = "refetch" /\ sub.pos = "done" /\ sub.res = "OK") =>
            sub.nsub = "live" /\ sub.made = 2 /\ sub.check = "OK")
    /\ [](sub.addres = "Other" =>
            /\ sub.pos = "done" /\ sub.res # "OK"
            /\ sub.nsub = "destroyed" /\ ~sub.dc)

\* the call lost the creation race and returned a subscription bound to the
\* consumer that existed
BoundAfterRace ==
    /\ sub.how = "refetch" /\ sub.pos = "done" /\ sub.res = "OK"
    /\ sub.addres = "ExistingActive" /\ sub.nsub = "live"

\* C18: dc is set only on a subscription whose own AddConsumer request
\* succeeded; the unsubscribe path and the drain-completion path together
\* send at most one DeleteConsumer request, and none for a subscription that
\* never had dc set
ConsumerDeletedOnce ==
    /\ sub.dc => (sub.addres = "OK" /\ sub.adds = 1 /\ sub.how = "none")
    /\ sub.dels + (IF sub.unsub = "req" THEN 1 ELSE 0)
                + (IF sub.drain = "req" THEN 1 ELSE 0) <= 1
    /\ sub.addres # "OK" =>
          (sub.dels = 0 /\ sub.unsub # "req" /\ sub.drain # "req")

\* the drain-completion path saw dc set, the unsubscribe path took the
\* consumer before it and has sent the one DeleteConsumer request
DrainLostRace ==
    sub.drain = "call" /\ sub.unsub = "done" /\ sub.dels = 1 /\ ~sub.dc

\* C19: a call with a queue name and a heartbeat or flow control returns
\* InvalidArgument without any stream lookup, consumer lookup, AddConsumer
\* request, jsSub or subscription
QueueRejectedFirst ==
    (sub.in.queue /\ (sub.in.hb \/ sub.in.fc) /\ sub.pos # "none") =>
        /\ sub.pos = "done" /\ sub.res = "INVALID_ARG"
        /\ sub.nstream = 0 /\ sub.lookups = 0 /\ sub.adds = 0 /\ sub.made = 0
        /\ sub.jsi = "none" /\ sub.nsub = "none"

\* a queue subscription asking for flow control only was rejected
QueueWithFlowControl ==
    /\ sub.in.queue /\ sub.in.fc /\ ~sub.in.hb
    /\ sub.pos = "done" /\ sub.res = "INVALID_ARG"

\* C37: js_AddConsumer is requested only by a call that has its delivery
\* subscription installed, its jsSub attached: the subscription is made before
\* the request, and no request is made when the subscription or its timer
\* could not be created.
SubscribedBeforeAddConsumer ==
    /\ [](sub.pos = "add" => sub.nsub = "live" /\ sub.jsi = "live" /\ sub.create)
    /\ [](sub.adds > 0 => sub.made > 0)
    /\ [][sub'.adds # sub.adds
          => sub.nsub = "live" /\ sub.made = sub.adds + 1 /\ sub'.made = sub.made]_vars

\* the consumer was created for a subscription made before the request
ConsumerCreatedForSubscription ==
    /\ sub.pos = "done" /\ sub.res = "OK" /\ sub.adds = 1 /\ sub.made = 1
    /\ sub.nsub = "live" /\ sub.dc /\ sub.addres = "OK"

\* C38: when a subscribe call returns an error, whichever step failed, no
\* subscription and no timer is left, the jsSub is freed if one was allocated,
\* and js_release was called as often as js_retain was for the jsSub, never
\* on a jsSub whose js was not set.
ErrorLeavesNothing ==
    sub.pos = "done" /\ sub.res # "OK"
    => /\ sub.nsub # "live" /\ ~sub.timer /\ sub.jsi \in {"none", "freed"}
       /\ sub.releases = sub.retains /\ ~sub.ub

\* ---------------------------------------------------------------------------
\* Comparing configurations: _checkConfig
\* ---------------------------------------------------------------------------

\* changes made to the two configurations before they are compared
MaxEdits == 2

StringsUnequal(user, server) == user # server

\* _stringPropertyDiffer
_stringPropertyDiffer(user, server) ==
    IF user \in {"<null>", ""} THEN FALSE
    ELSE IF server \in {"<null>", ""} THEN TRUE
    ELSE user # server

\* the condition _checkConfig tests for field f, sv the server's value and uv
\* the user's
FieldDiffers(f, sv, uv) ==
    CASE f \in {"Durable", "Description", "SampleFrequency"} ->
            _stringPropertyDiffer(uv, sv)
      [] f \in {"DeliverPolicy", "AckPolicy", "ReplayPolicy"} ->
            uv >= 0 /\ uv # sv
      [] f = "FlowControl" -> uv /\ ~sv
      [] OTHER -> uv > 0 /\ uv # sv

\* _checkConfig: NATS_ERR for the first field of its order whose test is true
\* (named here by that field), NATS_OK if there is none
_checkConfig(sc, uc) ==
    LET bad == {i \in DOMAIN CfgOrder :
                  FieldDiffers(CfgOrder[i], sc[CfgOrder[i]], uc[CfgOrder[i]])}
    IN IF bad = {} THEN "OK"
       ELSE CfgOrder[CHOOSE i \in bad : \A j \in bad : i <= j]

\* one field of the server's or of the user's configuration gets another value
SetField(side, f, v) ==
    /\ cfg.edits < MaxEdits
    /\ cfg[side][f] # v
    /\ cfg' = [cfg EXCEPT ![side][f] = v, !.edits = @ + 1, !.res = "NONE"]
    /\ UNCHANGED <<pipe, life, ack, sub, fetch, hb, meta, lazy>>

\* _processConsInfo calls _checkConfig on the two configurations
CheckConfig ==
    /\ cfg.res = "NONE"
    /\ cfg' = [cfg EXCEPT !.res = _checkConfig(cfg.s, cfg.u)]
    /\ UNCHANGED <<pipe, life, ack, sub, fetch, hb, meta, lazy>>

InitCfg ==
    /\ InitPipeline
    /\ opts = [MaxPending |-> 0, ErrHandler |-> FALSE]
    /\ life = NewLife
    /\ ack = NewAck("none", FALSE, FALSE, FALSE, FALSE)
    /\ sub = NewSub([f \in SubFields |-> FALSE])
    /\ \E set \in BOOLEAN : cfg = NewCfg(CfgBase(set))
    /\ fetch = NewFetch(0, 0, FALSE, FALSE)
    /\ hb = NewHb(FALSE, 0, FALSE)
    /\ meta = NewMeta(<<>>, {})
    /\ lazy = NewLazy

NextCfg ==
    \/ \E side \in {"s", "u"}, i \in DOMAIN CfgOrder :
         \E v \in CfgValues(CfgOrder[i]) : SetField(side, CfgOrder[i], v)
    \/ CheckConfig

SpecCfg == InitCfg /\ [][NextCfg]_vars

\* C20: _checkConfig returns OK exactly when no field mismatches, where a
\* string field mismatches iff the user's is non-empty and differs from the
\* server's, an enum field iff the user's is >= 0 and differs, a numeric field
\* iff the user's is > 0 and differs, and FlowControl iff the user's is true
\* and the server's false; an error names a mismatching field; a configuration
\* compared with itself is accepted
CheckConfigRules ==
    cfg.res # "NONE" =>
        LET mismatch(f) ==
                LET S == cfg.s[f]
                    U == cfg.u[f]
                IN IF f \in {"Durable", "Description", "SampleFrequency"}
                   THEN U \notin {"<null>", ""} /\ U # S
                   ELSE IF f \in {"DeliverPolicy", "AckPolicy", "ReplayPolicy"}
                   THEN U >= 0 /\ U # S
                   ELSE IF f = "FlowControl" THEN U = TRUE /\ S = FALSE
                   ELSE U > 0 /\ U # S
            fields == DOMAIN cfg.s
        IN /\ cfg.res = "OK" <=> \A f \in fields : ~mismatch(f)
           /\ cfg.res # "OK" => (cfg.res \in fields /\ mismatch(cfg.res))
           /\ cfg.s = cfg.u => cfg.res = "OK"

\* a user's configuration that leaves a field unset was accepted against a
\* server's that sets it, and differs from it
AcceptedThoughDifferent ==
    /\ cfg.res = "OK" /\ cfg.s # cfg.u
    /\ cfg.u["Durable"] = "" /\ cfg.s["Durable"] = "a"

\* ---------------------------------------------------------------------------
\* Pull subscriptions: natsSubscription_Fetch
\* ---------------------------------------------------------------------------

\* the largest batch asked for
MaxBatch == 2

\* the largest timeout and elapsed time, in steps of 5 milliseconds
MaxTicks == 6

\* what natsSub_nextMsg hands over: a user message, a message whose headers
\* cannot be read, or a status message 404, 408 or another one
MsgKinds == {"user", "badhdr", "404", "408", "409"}

\* every message is taken for a user message
CheckMsgAllUser(k, checkSts) == [s |-> "OK", usr |-> TRUE]

\* _checkMsg: the status and *usrMsg for a message of kind k
_checkMsg(k, checkSts) ==
    CASE k = "user" -> [s |-> "OK", usr |-> TRUE]
      [] k = "badhdr" -> [s |-> "ERR", usr |-> TRUE]
      [] k = "404" -> [s |-> IF checkSts THEN "NOT_FOUND" ELSE "OK", usr |-> FALSE]
      [] k = "408" -> [s |-> "OK", usr |-> FALSE]
      [] k = "409" -> [s |-> IF checkSts THEN "ERR" ELSE "OK", usr |-> FALSE]

\* ten milliseconds are taken off whatever is left
ExpiresShaved(t) == (t - 10) * 1000000

\* _sendPullRequest lines 1439-1445: expires in nanoseconds for a timeout of t
Expires(t) == (IF t >= 20 THEN t - 10 ELSE t) * 1000000

\* _sendPullRequest for the call f: the timeout is lowered by the time elapsed
\* since the start; the request is published (ok) unless no time is left
_sendPullRequest(f, noWait, ok) ==
    LET t == f.timeout - f.now
    IN IF t <= 0 THEN [f EXCEPT !.timeout = t, !.s = "TIMEOUT"]
       ELSE IF ~ok THEN [f EXCEPT !.timeout = t, !.s = "ERR"]
       ELSE [f EXCEPT !.timeout = t, !.s = "OK",
                      !.reqs = Append(@, [batch |-> f.batch - Len(f.msgs),
                                          expires |-> Expires(t),
                                          noWait |-> noWait,
                                          at |-> f.now])]

\* natsSubscription_Fetch line 1537: doNoWait
DoNoWaitAlways(f) == TRUE

DoNoWait(f) == f.batch - Len(f.msgs) > 1

\* the status of the call is returned whatever was collected
ReturnStatus(f) ==
    [f EXCEPT !.pos = "done", !.res = f.s, !.list = f.msgs]

\* natsSubscription_Fetch lines 1571-1592: the call returns
Return(f) ==
    [f EXCEPT !.pos = "done",
              !.res = IF Len(f.msgs) > 0 THEN "OK" ELSE f.s,
              !.list = f.msgs,
              !.cleared = Len(f.msgs) > 0 /\ f.s # "OK"]

\* the time d later, as far as the clock of the model goes
Later(f, d) ==
    [f EXCEPT !.now = IF @ + d > 5 * MaxTicks THEN 5 * MaxTicks ELSE @ + d]

\* natsSubscription_Fetch lines 1476-1503: the arguments are checked
FetchStarts ==
    /\ fetch.pos = "none"
    /\ fetch' =
         IF fetch.batch <= 0
         THEN [fetch EXCEPT !.pos = "done", !.res = "INVALID_ARG"]
         ELSE IF fetch.timeout <= 0
         THEN [fetch EXCEPT !.pos = "done", !.res = "INVALID_TIMEOUT"]
         ELSE IF ~fetch.pull
         THEN [fetch EXCEPT !.pos = "done", !.res = "INVALID_SUBSCRIPTION"]
         ELSE [fetch EXCEPT !.pos = IF fetch.pmc THEN "drain" ELSE "request"]
    /\ UNCHANGED <<pipe, life, ack, sub, cfg, hb, meta, lazy>>

\* one turn of the first loop (lines 1507-1524): natsSub_nextMsg without
\* waiting hands over a message of kind k, or "TIMEOUT" when there is none, or
\* fails; d is the time the turn took
Drain(k, d) ==
    /\ fetch.pos = "drain"
    /\ LET r == IF k \in MsgKinds THEN _checkMsg(k, FALSE)
                ELSE [s |-> k, usr |-> FALSE]
           f == [Later(fetch, d) EXCEPT
                   !.s = r.s,
                   !.msgs = IF r.s = "OK" /\ r.usr THEN Append(@, k) ELSE @]
       IN fetch' = IF f.s = "OK" /\ Len(f.msgs) < f.batch THEN f
                   ELSE IF f.s \in {"OK", "TIMEOUT"} /\ Len(f.msgs) # f.batch
                   THEN [f EXCEPT !.pos = "request"]
                   ELSE Return(f)
    /\ UNCHANGED <<pipe, life, ack, sub, cfg, hb, meta, lazy>>

\* the first pull request (lines 1528-1533)
Request(ok) ==
    /\ fetch.pos = "request"
    /\ LET doNoWait == DoNoWait(fetch)
           f == _sendPullRequest([fetch EXCEPT !.noWait = doNoWait], doNoWait, ok)
       IN fetch' = IF f.s = "OK" THEN [f EXCEPT !.pos = "wait"] ELSE Return(f)
    /\ UNCHANGED <<pipe, life, ack, sub, cfg, hb, meta, lazy>>

\* one turn of the second loop (lines 1535-1564): natsSub_nextMsg waits up to
\* the timeout and hands over a message of kind k after d, or "TIMEOUT", or
\* fails; a 404 for the no_wait request with nothing collected has the request
\* sent again (ok: it can be published)
NextMsg(k, d, ok) ==
    /\ fetch.pos = "wait"
    /\ d <= fetch.timeout
    /\ k = "TIMEOUT" => d = fetch.timeout
    /\ LET r == IF k \in MsgKinds THEN _checkMsg(k, TRUE)
                ELSE [s |-> k, usr |-> FALSE]
           g == [Later(fetch, d) EXCEPT !.s = r.s]
           f == IF r.s = "OK" /\ r.usr THEN [g EXCEPT !.msgs = Append(@, k)]
                ELSE IF k \in MsgKinds /\ g.noWait /\ r.s = "NOT_FOUND"
                        /\ Len(g.msgs) = 0
                THEN _sendPullRequest([g EXCEPT !.noWait = FALSE,
                                                !.asked = TRUE], FALSE, ok)
                ELSE g
       IN fetch' = IF f.s = "OK" /\ Len(f.msgs) < f.batch THEN f ELSE Return(f)
    /\ UNCHANGED <<pipe, life, ack, sub, cfg, hb, meta, lazy>>

InitFetch ==
    /\ InitPipeline
    /\ opts = [MaxPending |-> 0, ErrHandler |-> FALSE]
    /\ life = NewLife
    /\ ack = NewAck("none", FALSE, FALSE, FALSE, FALSE)
    /\ sub = NewSub([f \in SubFields |-> FALSE])
    /\ cfg = NewCfg(CfgBase(FALSE))
    /\ \E b \in 0..MaxBatch, i \in 0..MaxTicks, pull, pmc \in BOOLEAN :
         fetch = NewFetch(b, 5 * i, pull, pmc)
    /\ hb = NewHb(FALSE, 0, FALSE)
    /\ meta = NewMeta(<<>>, {})
    /\ lazy = NewLazy

NextFetch ==
    \/ FetchStarts
    \/ \E k \in MsgKinds \cup {"TIMEOUT", "ERR"}, d \in {0, 5} : Drain(k, d)
    \/ \E ok \in BOOLEAN : Request(ok)
    \/ \E k \in MsgKinds \cup {"TIMEOUT", "ERR"}, i \in 0..MaxTicks, ok \in BOOLEAN :
         NextMsg(k, 5 * i, ok)

SpecFetch == InitFetch /\ [][NextFetch]_vars

\* a 404 has just answered the no_wait request of a call that has collected
\* nothing
Got404 == fetch.pos = "wait" /\ fetch.noWait /\ ~fetch.asked /\ fetch'.asked

\* what holds of the pull requests of every call: at most two; the first one
\* carries no_wait exactly when more than one message remains to be fetched;
\* a second one is sent only after such a 404, without no_wait and for the
\* whole batch
PullRequests ==
    /\ Len(fetch.reqs) <= 2
    /\ Len(fetch.reqs) >= 1 => (fetch.reqs[1].noWait <=> fetch.reqs[1].batch > 1)
    /\ Len(fetch.reqs) = 2 =>
         /\ fetch.asked /\ fetch.reqs[1].noWait
         /\ ~fetch.reqs[2].noWait /\ fetch.reqs[2].batch = fetch.batch

\* C21 as stated: besides PullRequests, a 404 that answers the no_wait request
\* of a call that has collected nothing always has one second request sent
\* without no_wait, and the call goes on waiting.
SecondRequestAlwaysSent ==
    /\ []PullRequests
    /\ [][Got404 => /\ Len(fetch'.reqs) = 2 /\ ~fetch'.reqs[2].noWait
                    /\ fetch'.pos = "wait"]_vars

\* C21: at most two pull requests per call; the first carries no_wait exactly
\* when more than one message remains; after a 404 for the no_wait request with
\* nothing collected, either one second request without no_wait is sent and
\* the call goes on waiting, or _sendPullRequest finds no time left or cannot
\* publish, and then nothing is sent and the call returns that error.
SecondRequestSentIfPossible ==
    /\ []PullRequests
    /\ [][Got404 =>
           \/ /\ Len(fetch'.reqs) = 2 /\ ~fetch'.reqs[2].noWait
              /\ fetch'.pos = "wait"
           \/ /\ fetch'.reqs = fetch.reqs /\ fetch'.pos = "done"
              /\ fetch'.res \in {"TIMEOUT", "ERR"}
              /\ fetch'.res = "TIMEOUT" <=> fetch'.timeout <= 0]_vars

\* a 404 made the call send its second request, and it is waiting again
SecondRequestSent ==
    fetch.pos = "wait" /\ fetch.asked /\ Len(fetch.reqs) = 2

\* the call returned NATS_TIMEOUT at the 404: the second request was not sent
TimedOutAt404 ==
    /\ fetch.pos = "done" /\ fetch.asked /\ Len(fetch.reqs) = 1
    /\ fetch.res = "TIMEOUT"

\* the call got through the checks of its arguments and has returned
Returned == fetch.pos = "done" /\ fetch.res \notin {"INVALID_ARG", "INVALID_TIMEOUT", "INVALID_SUBSCRIPTION"}

\* C22: a call that stops with at least one user message collected returns
\* NATS_OK with exactly the collected messages, and the error it stopped with
\* is cleared; a call returns an error or a timeout only with nothing collected
\* and an empty list; NATS_OK is never returned with an empty list.
PartialErrorsSuppressed ==
    Returned =>
      /\ Len(fetch.msgs) > 0 =>
           /\ fetch.res = "OK" /\ fetch.list = fetch.msgs
           /\ fetch.s # "OK" => fetch.cleared
      /\ fetch.res # "OK" => fetch.msgs = <<>> /\ fetch.list = <<>>
      /\ fetch.res = "OK" => /\ Len(fetch.list) \in 1..fetch.batch
                             /\ \A i \in 1..Len(fetch.list) : fetch.list[i] = "user"

\* a call stopped by a 404 after it collected a message returned NATS_OK
ReturnedOneAfter404 ==
    /\ Returned /\ fetch.s = "NOT_FOUND" /\ fetch.batch = 2
    /\ Len(fetch.list) = 1 /\ fetch.res = "OK" /\ fetch.cleared

\* C32 as stated: every pull request carries expires = (remaining - 10 ms) in
\* nanoseconds, remaining being the timeout of the call minus the time since
\* its start, and expires is above zero.
ExpiresIsRemainingLessTen ==
    \A i \in 1..Len(fetch.reqs) :
       /\ fetch.reqs[i].expires = (fetch.t0 - fetch.reqs[i].at - 10) * 1000000
       /\ fetch.reqs[i].expires > 0

\* C32: every pull request carries an expires above zero, in nanoseconds, of
\* what _sendPullRequest has left of the timeout, less 10 ms only when 20 ms
\* or more are left; what is left is the timeout less the time since the
\* start for the first request, and that less the time since the start once
\* more for the second one; when nothing is left no request is sent and the
\* call ends, with NATS_TIMEOUT unless the first loop had collected messages.
ExpiresIsWhatIsLeft ==
    /\ [](\A i \in 1..Len(fetch.reqs) :
            LET left == IF i = 1 THEN fetch.t0 - fetch.reqs[1].at
                        ELSE fetch.t0 - fetch.reqs[1].at - fetch.reqs[2].at
            IN /\ left > 0
               /\ fetch.reqs[i].expires =
                    (IF left >= 20 THEN left - 10 ELSE left) * 1000000
               /\ fetch.reqs[i].expires > 0)
    /\ [][fetch'.timeout # fetch.timeout /\ fetch'.timeout <= 0
          => /\ fetch'.reqs = fetch.reqs /\ fetch'.pos = "done"
             /\ fetch'.timeout = fetch.timeout - fetch'.now
             /\ IF Len(fetch'.msgs) = 0 THEN fetch'.res = "TIMEOUT"
                ELSE fetch'.res = "OK" /\ fetch'.list = fetch'.msgs]_vars

\* the second request of a call was made 10 ms after its start, the first one
\* 5 ms after it: of a timeout of 30 ms, 15 ms are left for it and not 20
SecondRequestCountsTwice ==
    /\ Len(fetch.reqs) = 2 /\ fetch.t0 = 30
    /\ fetch.reqs[1].at = 5 /\ fetch.reqs[1].expires = 15000000
    /\ fetch.reqs[2].at = 10 /\ fetch.reqs[2].expires = 15000000

\* C39: a natsSubscription_Fetch call returns, whatever the server sends: no
\* turn of the wait loop leaves the call waiting as it was, each one that does
\* not end the call has collected a message, made the second request or left
\* less time to wait, so that no run of 408 status messages keeps it waiting
\* for ever.
WaitLoopProgresses ==
    [][fetch.pos = "wait" /\ fetch'.pos = "wait"
       => <<Len(fetch'.msgs), fetch'.noWait, fetch'.timeout>>
            # <<Len(fetch.msgs), fetch.noWait, fetch.timeout>>]_vars

\* C40: a call that returns NATS_OK hands back between 1 and batch messages,
\* all of them user messages: no status message is put in the list, by the
\* first loop or by the second, and no message is taken once batch messages
\* are collected.
OnlyUserMessagesReturned ==
    /\ [](Len(fetch.msgs) <= fetch.batch \/ fetch.batch <= 0)
    /\ [](\A i \in 1..Len(fetch.msgs) : fetch.msgs[i] = "user")
    /\ [](fetch.res = "OK" =>
            /\ fetch.list = fetch.msgs
            /\ 1 <= Len(fetch.list) /\ Len(fetch.list) <= fetch.batch)
    /\ [][fetch'.msgs # fetch.msgs
          => /\ Len(fetch.msgs) < fetch.batch
             /\ Len(fetch'.msgs) = Len(fetch.msgs) + 1]_vars

\* a call for two messages took one that was queued and one that its request
\* brought, and returned both
BatchFromBothLoops ==
    /\ fetch.res = "OK" /\ fetch.batch = 2 /\ Len(fetch.list) = 2
    /\ fetch.pmc /\ Len(fetch.reqs) = 1 /\ fetch.reqs[1].batch = 1

\* ---------------------------------------------------------------------------
\* Ack reply subjects: _getMetaData
\* ---------------------------------------------------------------------------

\* how many characters of a reply subject are changed before it is parsed
MaxMetaEdits == 2

DigitChars == <<"0", "1", "2", "3", "4", "5", "6", "7", "8", "9">>

IsDigit(c) == \E d \in 1..10 : DigitChars[d] = c

\* the decimal digits of n < 100, as the server writes a number in a subject
Str(n) ==
    IF n < 10 THEN <<DigitChars[n + 1]>>
    ELSE <<DigitChars[(n \div 10) + 1], DigitChars[(n % 10) + 1]>>

\* the tokens ts joined with dots
RECURSIVE Join(_)
Join(ts) ==
    IF Len(ts) = 0 THEN <<>>
    ELSE IF Len(ts) = 1 THEN ts[1]
    ELSE ts[1] \o <<".">> \o Join(Tail(ts))

\* the v1 subject after "$JS.ACK.": stream, consumer, delivered, stream
\* sequence, consumer sequence, timestamp, pending
V1(sseq, dseq) ==
    Join(<< <<"S">>, <<"C">>, <<"1">>, Str(sseq), Str(dseq), <<"7">>, <<"0">> >>)

\* the v2 subject after "$JS.ACK.": domain, account hash, the v1 tokens, and a
\* random token
V2(domain, sseq, dseq) ==
    Join(<< domain, <<"h">> >>) \o <<".">> \o V1(sseq, dseq) \o <<".", "r">>

\* nats_ParseInt64(str, len): the value of a run of digits, -1 otherwise
RECURSIVE nats_ParseInt64(_)
nats_ParseInt64(str) ==
    IF Len(str) = 0 \/ \E i \in 1..Len(str) : ~IsDigit(str[i]) THEN -1
    ELSE IF Len(str) = 1 THEN (CHOOSE d \in 1..10 : DigitChars[d] = str[1]) - 1
    ELSE 10 * nats_ParseInt64(SubSeq(str, 1, Len(str) - 1))
         + nats_ParseInt64(<<str[Len(str)]>>)

\* _getMetaData lines 1133-1145: the tokens found in p when nt are known
RECURSIVE FindTokens(_, _)
FindTokens(p, nt) ==
    LET dots == {i \in 1..Len(p) : p[i] = "."}
    IN IF nt < 9 /\ dots # {}
       THEN LET np == CHOOSE i \in dots : \A j \in dots : i <= j
            IN <<[null |-> FALSE, str |-> SubSeq(p, 1, np - 1)]>>
               \o FindTokens(SubSeq(p, np + 1, Len(p)), nt + 1)
       ELSE IF nt < 9 THEN <<[null |-> FALSE, str |-> p]>>
       ELSE <<>>

\* the fields in the order of the tokens of a v2 subject
FieldOrder ==
    <<"domain", "acc", "stream", "consumer", "numDelivered", "sseq", "dseq",
      "tm", "numPending">>

\* _getMetaData lines 1164-1253: the loop from token i on (i counted from 0),
\* done fields being filled in; the status and the fields
RECURSIVE Fill(_, _, _, _, _)
Fill(tokens, i, done, want, out) ==
    IF i >= Len(tokens) THEN [s |-> "OK", out |-> out]
    ELSE LET t == tokens[i + 1]
             val == IF i > 3 THEN nats_ParseInt64(t.str) ELSE 0
             f == FieldOrder[i + 1]
             got == IF f \notin want THEN out
                    ELSE IF i = 0
                    THEN [out EXCEPT !.domain =
                            IF t.null \/ t.str = <<"_">> THEN NoToken ELSE t]
                    ELSE IF i <= 3 THEN [out EXCEPT ![f] = t]
                    ELSE [out EXCEPT ![f] = val]
             n == IF f \in want THEN done + 1 ELSE done
         IN IF i > 3 /\ val = -1 THEN [s |-> "ERR", out |-> out]
            ELSE IF n = Cardinality(want) THEN [s |-> "OK", out |-> got]
            ELSE Fill(tokens, i + 1, n, want, got)

\* the number of tokens is only checked to be 7 at least
AcceptEight(rply, want, out) ==
    LET t == FindTokens(rply, 0)
    IN IF Len(t) < 7 THEN [s |-> "ERR", out |-> out]
       ELSE Fill(IF Len(t) = 7 THEN <<NoToken, NoToken>> \o t ELSE t, 0, 0, want, out)

\* _getMetaData(rply, ..., asked): the status and the fields written
_getMetaData(rply, want, out) ==
    LET t == FindTokens(rply, 0)
        nt == Len(t)
    IN IF nt < 7 \/ (nt > 7 /\ nt < 9) THEN [s |-> "ERR", out |-> out]
       ELSE Fill(IF nt = 7 THEN <<NoToken, NoToken>> \o t ELSE t, 0, 0, want, out)

\* the fields asked for by jsSub_processSequenceMismatch and by
\* natsMsg_GetMetaData
Wants ==
    {{"sseq", "dseq"},
     {"domain", "stream", "consumer", "numDelivered", "sseq", "dseq", "tm",
      "numPending"}}

\* one character of the subject is another one
EditChar(i, c) ==
    /\ meta.res = "NONE"
    /\ meta.edits < MaxMetaEdits
    /\ i \in 1..Len(meta.reply)
    /\ meta.reply[i] # c
    /\ meta' = [meta EXCEPT !.reply = [@ EXCEPT ![i] = c], !.edits = @ + 1]
    /\ UNCHANGED <<pipe, life, ack, sub, cfg, fetch, hb, lazy>>

\* the subject is parsed
GetMetaData ==
    /\ meta.res = "NONE"
    /\ LET r == _getMetaData(meta.reply, meta.want, meta.out)
       IN meta' = [meta EXCEPT !.res = r.s, !.out = r.out]
    /\ UNCHANGED <<pipe, life, ack, sub, cfg, fetch, hb, lazy>>

InitMeta ==
    /\ InitPipeline
    /\ opts = [MaxPending |-> 0, ErrHandler |-> FALSE]
    /\ life = NewLife
    /\ ack = NewAck("none", FALSE, FALSE, FALSE, FALSE)
    /\ sub = NewSub([f \in SubFields |-> FALSE])
    /\ cfg = NewCfg(CfgBase(FALSE))
    /\ fetch = NewFetch(0, 0, FALSE, FALSE)
    /\ hb = NewHb(FALSE, 0, FALSE)
    /\ \E r \in {V1(12, 10), V2(<<"_">>, 12, 10), V2(<<"D">>, 12, 10)}, w \in Wants :
         meta = NewMeta(r, w)
    /\ lazy = NewLazy

NextMeta ==
    \/ \E i \in 1..Len(meta.reply), c \in {".", "x", "_"} : EditChar(i, c)
    \/ GetMetaData

SpecMeta == InitMeta /\ [][NextMeta]_vars

\* the positions of the dots of r, and that of its j-th dot (0 before the
\* first one, past the end after the last one)
Dots(r) == {i \in 1..Len(r) : r[i] = "."}

DotAt(r, j) ==
    IF j = 0 THEN 0
    ELSE IF j > Cardinality(Dots(r)) THEN Len(r) + 1
    ELSE CHOOSE i \in Dots(r) : Cardinality({k \in Dots(r) : k < i}) = j - 1

\* the j-th dot-separated token of r, and their number counted up to 9
TokenAt(r, j) == SubSeq(r, DotAt(r, j - 1) + 1, DotAt(r, j) - 1)

Counted(r) == IF Cardinality(Dots(r)) + 1 > 9 THEN 9 ELSE Cardinality(Dots(r)) + 1

\* r has 7 or 9 tokens, and each numeric one up to the last field wanted is a
\* run of digits
Valid(r, want) ==
    LET shift == IF Counted(r) = 7 THEN 2 ELSE 0
        last == CHOOSE i \in 1..9 :
                  FieldOrder[i] \in want /\ \A j \in (i + 1)..9 : FieldOrder[j] \notin want
    IN /\ Counted(r) \in {7, 9}
       /\ \A i \in 5..last :
            LET t == TokenAt(r, i - shift)
            IN Len(t) > 0 /\ \A k \in 1..Len(t) : IsDigit(t[k])

\* C27: _getMetaData returns NATS_OK exactly when the subject has 7 or 9
\* tokens, counted up to 9, and every numeric token up to the last field asked
\* for is a non-negative integer; tokens after that field are not looked at;
\* a v1 subject and a v2 subject whose domain is "_" give no domain.
MetaDataAccepted ==
    meta.res # "NONE" =>
      /\ meta.res = "OK" <=> Valid(meta.reply, meta.want)
      /\ meta.res = "OK" /\ "domain" \in meta.want
           /\ (Counted(meta.reply) = 7 \/ TokenAt(meta.reply, 1) = <<"_">>)
         => meta.out.domain = NoToken
      /\ meta.res = "OK" /\ "domain" \in meta.want /\ Counted(meta.reply) = 9
           /\ TokenAt(meta.reply, 1) # <<"_">>
         => meta.out.domain = [null |-> FALSE, str |-> TokenAt(meta.reply, 1)]

\* a v2 subject with domain "_" was accepted for the sequences only, its
\* timestamp not being a number
AcceptedWithBadTimestamp ==
    /\ meta.res = "OK" /\ meta.want = {"sseq", "dseq"}
    /\ Counted(meta.reply) = 9 /\ TokenAt(meta.reply, 1) = <<"_">>
    /\ TokenAt(meta.reply, 8) = <<"x">>
    /\ meta.out.sseq = 12 /\ meta.out.dseq = 10

\* ---------------------------------------------------------------------------
\* Heartbeats and sequence mismatches of a subscription
\* ---------------------------------------------------------------------------

\* how many messages, heartbeats, ticks and calls one subscription sees
MaxHbSteps == 5

\* the consumer sequences messages carry and heartbeats advertise
Seqs == {10, 12}

\* what a message can have as reply: none, an inbox, or "$JS.ACK." and a tail
Replies ==
    {[ack |-> FALSE, tail |-> <<>>]}
    \cup [ack : {TRUE}, tail : {V1(d + 5, d) : d \in Seqs} \cup {<<"x">>}]

\* the Nats-Last-Consumer header of a heartbeat: none, a number, or no number
Headers ==
    {NoToken} \cup [null : {FALSE}, str : {Str(d) : d \in Seqs} \cup {<<"x">>}]

\* any reply makes the subscription active
TrackAnyReply(h, rply) ==
    [h EXCEPT !.active = TRUE,
              !.cmeta = IF rply.ack THEN [null |-> FALSE, str |-> rply.tail] ELSE @]

\* jsSub_trackSequences(jsi, reply)
jsSub_trackSequences(h, rply) ==
    IF ~rply.ack THEN h
    ELSE [h EXCEPT !.active = TRUE, !.cmeta = [null |-> FALSE, str |-> rply.tail]]

\* the mismatch is recorded whether one is already being suppressed or not
ProcessUnsuppressed(h, hdr) ==
    LET a == [h EXCEPT !.active = TRUE, !.told = FALSE]
        r == _getMetaData(a.cmeta.str, {"sseq", "dseq"},
                          [NoOut EXCEPT !.sseq = a.sseq, !.dseq = a.dseq])
        b == [a EXCEPT !.sseq = r.out.sseq, !.dseq = r.out.dseq, !.res = r.s]
        val == nats_ParseInt64(hdr.str)
        c == [b EXCEPT !.ldseq = val]
    IN IF a.cmeta.null THEN [a EXCEPT !.res = "OK"]
       ELSE IF r.s # "OK" THEN b
       ELSE IF hdr.null THEN [b EXCEPT !.res = "NOT_FOUND"]
       ELSE IF val = -1 THEN [b EXCEPT !.res = "ERR"]
       ELSE IF c.ldseq = c.dseq THEN [c EXCEPT !.sm = FALSE, !.ssmn = FALSE]
       ELSE [c EXCEPT !.sm = TRUE, !.ssmn = TRUE, !.told = c.async]

\* jsSub_processSequenceMismatch(sub, msg, &sm) for a heartbeat whose
\* Nats-Last-Consumer header is hdr
jsSub_processSequenceMismatch(h, hdr) ==
    LET a == [h EXCEPT !.active = TRUE, !.told = FALSE]
        r == _getMetaData(a.cmeta.str, {"sseq", "dseq"},
                          [NoOut EXCEPT !.sseq = a.sseq, !.dseq = a.dseq])
        b == [a EXCEPT !.sseq = r.out.sseq, !.dseq = r.out.dseq, !.res = r.s]
        val == nats_ParseInt64(hdr.str)
        c == [b EXCEPT !.ldseq = val]
    IN IF a.cmeta.null THEN [a EXCEPT !.res = "OK"]
       ELSE IF r.s # "OK" THEN b
       ELSE IF hdr.null THEN [b EXCEPT !.res = "NOT_FOUND"]
       ELSE IF val = -1 THEN [b EXCEPT !.res = "ERR"]
       ELSE IF c.ldseq = c.dseq THEN [c EXCEPT !.sm = FALSE, !.ssmn = FALSE]
       ELSE IF ~c.ssmn THEN [c EXCEPT !.sm = TRUE, !.ssmn = TRUE, !.told = c.async]
       ELSE c

\* the sequences are handed out whether they differ or not
GetSequencesAlways(h) ==
    [s |-> "OK", Stream |-> h.sseq, ConsumerClient |-> h.dseq,
     ConsumerServer |-> h.ldseq]

\* natsSubscription_GetSequenceMismatch(csm, sub)
natsSubscription_GetSequenceMismatch(h) ==
    IF h.dseq = h.ldseq THEN [s |-> "NOT_FOUND"]
    ELSE [s |-> "OK", Stream |-> h.sseq, ConsumerClient |-> h.dseq,
          ConsumerServer |-> h.ldseq]

\* _subscribe lines 2005-2014: ct, whether the timer is created
CreateTimerAlways(h) == h.hbi > 0

CreateTimer(h) == h.hbi > 0 /\ h.errCb

\* a step op of the subscription h
Stepped(h, op) == [h EXCEPT !.op = op, !.n = @ + 1]

\* _subscribe lines 2003-2025: the subscription exists, and the timer is
\* created if it has to be; ok: natsTimer_Create succeeds
HbSubscribe(ok) ==
    /\ hb.pos = "new"
    /\ hb' = IF ~CreateTimer(hb) THEN [hb EXCEPT !.pos = "live", !.refs = 1]
             ELSE IF ok
             THEN [hb EXCEPT !.pos = "live", !.refs = 2, !.timer = "on",
                             !.period = hb.hbi * 2]
             ELSE [hb EXCEPT !.pos = "closed", !.refs = 1]
    /\ UNCHANGED <<pipe, life, ack, sub, cfg, fetch, meta, lazy>>

\* an async error handler is registered after the subscription was made
RegisterLater ==
    /\ hb.pos = "live" /\ ~hb.errNow
    /\ hb' = [hb EXCEPT !.errNow = TRUE]
    /\ UNCHANGED <<pipe, life, ack, sub, cfg, fetch, meta, lazy>>

\* a message with the reply rply is received
Message(rply) ==
    /\ hb.pos = "live" /\ hb.n < MaxHbSteps
    /\ LET h == jsSub_trackSequences(Stepped(hb, "msg"), rply)
           d == IF rply.ack /\ rply.tail # <<"x">>
                THEN CHOOSE d \in Seqs : rply.tail = V1(d + 5, d) ELSE hb.last
       IN hb' = [h EXCEPT !.quiet = @ /\ ~rply.ack, !.last = d]
    /\ UNCHANGED <<pipe, life, ack, sub, cfg, fetch, meta, lazy>>

\* a heartbeat with the header hdr is received
Heartbeat(hdr) ==
    /\ hb.pos = "live" /\ hb.n < MaxHbSteps
    /\ LET h == jsSub_processSequenceMismatch(Stepped(hb, "hb"), hdr)
           k == IF h.told THEN 1 ELSE 0
       IN hb' = [h EXCEPT !.quiet = FALSE,
                          !.adv = IF hdr.null \/ hdr.str = <<"x">> THEN @
                                  ELSE CHOOSE d \in Seqs : hdr.str = Str(d),
                          !.raised = @ + k,
                          !.epi = IF hb.ssmn /\ ~h.ssmn THEN 0 ELSE @ + k]
    /\ UNCHANGED <<pipe, life, ack, sub, cfg, fetch, meta, lazy>>

\* a flow control message is received: the subscription is active
FlowControl ==
    /\ hb.pos = "live" /\ hb.n < MaxHbSteps
    /\ hb' = [Stepped(hb, "fc") EXCEPT !.active = TRUE, !.quiet = FALSE]
    /\ UNCHANGED <<pipe, life, ack, sub, cfg, fetch, meta, lazy>>

\* NextMsg of a subscription without callback finds sm set: it clears it and
\* returns NATS_MISMATCH
SyncNextMsg ==
    /\ hb.pos = "live" /\ hb.n < MaxHbSteps
    /\ ~hb.async /\ hb.sm
    /\ hb' = [Stepped(hb, "next") EXCEPT !.sm = FALSE, !.raised = @ + 1,
                                         !.epi = @ + 1]
    /\ UNCHANGED <<pipe, life, ack, sub, cfg, fetch, meta, lazy>>

\* _hbTimerFired
Tick ==
    /\ hb.timer = "on" /\ hb.n < MaxHbSteps
    /\ LET alert == ~hb.active
       IN hb' = [Stepped(hb, "tick") EXCEPT
                   !.active = FALSE, !.quiet = TRUE,
                   !.missed = IF alert /\ hb.errNow THEN @ + 1 ELSE @]
    /\ UNCHANGED <<pipe, life, ack, sub, cfg, fetch, meta, lazy>>

\* the user calls natsSubscription_GetSequenceMismatch
GetSequenceMismatch ==
    /\ hb.pos = "live" /\ hb.n < MaxHbSteps
    /\ hb' = [Stepped(hb, "get") EXCEPT
                !.csm = natsSubscription_GetSequenceMismatch(hb)]
    /\ UNCHANGED <<pipe, life, ack, sub, cfg, fetch, meta, lazy>>

\* the subscription is closed; its timer is stopped: _hbTimerStopped
TimerStopped ==
    /\ hb.pos = "live"
    /\ hb' = IF hb.timer = "on"
             THEN [hb EXCEPT !.pos = "closed", !.timer = "stopped", !.refs = @ - 1]
             ELSE [hb EXCEPT !.pos = "closed"]
    /\ UNCHANGED <<pipe, life, ack, sub, cfg, fetch, meta, lazy>>

InitHb ==
    /\ InitPipeline
    /\ opts = [MaxPending |-> 0, ErrHandler |-> FALSE]
    /\ life = NewLife
    /\ ack = NewAck("none", FALSE, FALSE, FALSE, FALSE)
    /\ sub = NewSub([f \in SubFields |-> FALSE])
    /\ cfg = NewCfg(CfgBase(FALSE))
    /\ fetch = NewFetch(0, 0, FALSE, FALSE)
    /\ \E errCb, async \in BOOLEAN, hbi \in {0, 3} : hb = NewHb(errCb, hbi, async)
    /\ meta = NewMeta(<<>>, {})
    /\ lazy = NewLazy

NextHb ==
    \/ \E ok \in BOOLEAN : HbSubscribe(ok)
    \/ RegisterLater
    \/ \E r \in Replies : Message(r)
    \/ \E h \in Headers : Heartbeat(h)
    \/ FlowControl
    \/ SyncNextMsg
    \/ Tick
    \/ GetSequenceMismatch
    \/ TimerStopped

SpecHb == InitHb /\ [][NextHb]_vars

\* C23: a mismatch is reported at most once until it is resolved: a heartbeat
\* that finds ldseq # dseq while one is suppressed reports nothing and leaves
\* sm and ssmn alone; ssmn is cleared only by a heartbeat that finds
\* ldseq = dseq, which clears sm too; sm is set only by a heartbeat that finds
\* ldseq # dseq with nothing suppressed, and only then, for a subscription
\* with a callback, the caller is told to raise NATS_MISMATCH.
OneReportPerMismatch ==
    /\ [](hb.epi <= 1)
    /\ [][/\ hb.ssmn /\ hb'.op = "hb" /\ hb'.n # hb.n /\ hb'.ldseq # hb'.dseq
             => ~hb'.told /\ hb'.raised = hb.raised /\ hb'.sm = hb.sm /\ hb'.ssmn
          /\ hb.ssmn /\ ~hb'.ssmn
             => hb'.op = "hb" /\ hb'.ldseq = hb'.dseq /\ ~hb'.sm
          /\ ~hb.sm /\ hb'.sm
             => /\ hb'.op = "hb" /\ ~hb.ssmn /\ hb'.ssmn /\ hb'.ldseq # hb'.dseq
                /\ hb'.told <=> hb.async
          /\ hb'.op = "hb" /\ hb'.told /\ hb'.n # hb.n => ~hb.sm /\ hb'.sm]_vars

\* a second mismatch was reported to the callback, the first one having been
\* resolved, and a later heartbeat found it still there
ReportedAgain ==
    /\ hb.async /\ hb.raised = 2 /\ hb.epi = 1 /\ hb.op = "hb" /\ ~hb.told
    /\ hb.ssmn /\ hb.ldseq # hb.dseq

TimerOnlyWithHandler ==
    /\ [](/\ hb.pos = "live" => (hb.timer = "on" <=> hb.hbi > 0 /\ hb.errCb)
          /\ hb.timer # "none" => hb.period = 2 * hb.hbi /\ hb.hbi > 0 /\ hb.errCb
          /\ hb.timer = "none" => hb.missed = 0
          /\ hb.pos # "new" => hb.refs = 1 + (IF hb.timer = "on" THEN 1 ELSE 0))
    /\ [][hb.pos # "new" /\ hb.timer = "none" => hb'.timer = "none"]_vars

\* a handler was registered after the subscription was made, and nothing was
\* received over two periods
LateHandlerNoTimer ==
    /\ hb.hbi > 0 /\ ~hb.errCb /\ hb.errNow /\ hb.timer = "none"
    /\ hb.pos = "closed" /\ hb.quiet /\ hb.missed = 0 /\ hb.refs = 1

\* a timer that posted an alert was stopped and gave its reference back
TimerStoppedAfterAlert ==
    hb.timer = "stopped" /\ hb.missed = 1 /\ hb.refs = 1

\* ---------------------------------------------------------------------------
\* First async publish: _newAsyncReply creates what the context needs
\* ---------------------------------------------------------------------------

\* async publishes made on the context
MaxLazyCalls == 3

\* where a call can fail: nowhere, in natsCondition_Create, natsStrHash_Create,
\* the allocation of the prefix, natsConn_subscribeNoPool or natsStrHash_Set
FailAts == {"none", "cond", "pm", "rpre", "rsub", "set"}

\* what was created stays after a failure
NewAsyncReplyNoUndo(j, failAt) ==
    IF j.rsub THEN [j EXCEPT !.s = "OK"]
    ELSE LET a == IF failAt = "cond" THEN [j EXCEPT !.s = "ERR"]
                  ELSE [j EXCEPT !.s = "OK", !.cond = TRUE, !.made.cond = @ + 1]
             b == IF a.s # "OK" THEN a
                  ELSE IF failAt = "pm" THEN [a EXCEPT !.s = "ERR"]
                  ELSE [a EXCEPT !.pm = TRUE, !.made.pm = @ + 1]
             c == IF b.s # "OK" THEN b
                  ELSE IF failAt = "rpre" THEN [b EXCEPT !.s = "ERR"]
                  ELSE [b EXCEPT !.rpre = TRUE, !.made.rpre = @ + 1]
         IN IF c.s # "OK" THEN c
            ELSE IF failAt = "rsub" THEN [c EXCEPT !.s = "ERR"]
            ELSE [c EXCEPT !.rsub = TRUE, !.made.rsub = @ + 1, !.refs = @ + 1]

\* _newAsyncReply(reply, js): the context afterwards, s being the status
_newAsyncReply(j, failAt) ==
    IF j.rsub THEN [j EXCEPT !.s = "OK"]
    ELSE LET a == IF failAt = "cond" THEN [j EXCEPT !.s = "ERR"]
                  ELSE [j EXCEPT !.s = "OK", !.cond = TRUE, !.made.cond = @ + 1]
             b == IF a.s # "OK" THEN a
                  ELSE IF failAt = "pm" THEN [a EXCEPT !.s = "ERR"]
                  ELSE [a EXCEPT !.pm = TRUE, !.made.pm = @ + 1]
             c == IF b.s # "OK" THEN b
                  ELSE IF failAt = "rpre" THEN [b EXCEPT !.s = "ERR"]
                  ELSE [b EXCEPT !.rpre = TRUE, !.made.rpre = @ + 1]
             d == IF c.s # "OK" THEN c
                  ELSE IF failAt = "rsub" THEN [c EXCEPT !.s = "ERR"]
                  ELSE [c EXCEPT !.rsub = TRUE, !.made.rsub = @ + 1, !.refs = @ + 1]
         IN IF d.s = "OK" THEN d
            ELSE [d EXCEPT !.rpre = FALSE, !.pm = FALSE, !.cond = FALSE]

\* _registerPubMsg with MaxPending 0: the count is raised, the reply subject
\* made, the message stored; the count is taken back if the call fails
RegisterPubMsg(failAt) ==
    /\ Len(lazy.log) < MaxLazyCalls
    /\ failAt \in {"cond", "pm", "rpre", "rsub"} => ~lazy.rsub
    /\ LET j == [lazy EXCEPT !.pmcount = @ + 1,
                             !.was = [refs |-> lazy.refs, pmcount |-> lazy.pmcount,
                                      rsub |-> lazy.rsub],
                             !.log = Append(@, failAt)]
           k == _newAsyncReply(j, failAt)
           r == IF k.s = "OK" /\ failAt = "set" THEN [k EXCEPT !.s = "ERR"] ELSE k
       IN lazy' = IF r.s = "OK" THEN r ELSE [r EXCEPT !.pmcount = @ - 1]
    /\ UNCHANGED <<pipe, life, ack, sub, cfg, fetch, hb, meta>>

\* the ack of a message is dispatched
LazyAck ==
    /\ lazy.pmcount > 0
    /\ lazy' = [lazy EXCEPT !.pmcount = @ - 1]
    /\ UNCHANGED <<pipe, life, ack, sub, cfg, fetch, hb, meta>>

InitLazy ==
    /\ InitPipeline
    /\ opts = [MaxPending |-> 0, ErrHandler |-> FALSE]
    /\ life = NewLife
    /\ ack = NewAck("none", FALSE, FALSE, FALSE, FALSE)
    /\ sub = NewSub([f \in SubFields |-> FALSE])
    /\ cfg = NewCfg(CfgBase(FALSE))
    /\ fetch = NewFetch(0, 0, FALSE, FALSE)
    /\ hb = NewHb(FALSE, 0, FALSE)
    /\ meta = NewMeta(<<>>, {})
    /\ lazy = NewLazy

NextLazy ==
    \/ \E failAt \in FailAts : RegisterPubMsg(failAt)
    \/ LazyAck

SpecLazy == InitLazy /\ [][NextLazy]_vars

\* the last call failed while the context was being initialised
InitFailed ==
    /\ lazy.log # <<>>
    /\ lazy.log[Len(lazy.log)] \in {"cond", "pm", "rpre", "rsub"}
    /\ lazy.s # "NONE"

\* C30: a first async publish whose initialisation fails returns the error
\* with the pending count and the reference count as they were and with
\* condition, map, prefix and reply subscription unset; the next publish that
\* succeeds has created all four, once more each, and holds one more reference.
FailedInitUndone ==
    /\ [](InitFailed =>
            /\ lazy.s = "ERR" /\ ~lazy.was.rsub
            /\ lazy.pmcount = lazy.was.pmcount /\ lazy.refs = lazy.was.refs
            /\ ~lazy.cond /\ ~lazy.pm /\ ~lazy.rpre /\ ~lazy.rsub)
    /\ [](lazy.cond = lazy.rsub /\ lazy.pm = lazy.rsub /\ lazy.rpre = lazy.rsub)
    /\ [][InitFailed /\ lazy'.log # lazy.log /\ lazy'.s = "OK" =>
            /\ lazy'.cond /\ lazy'.pm /\ lazy'.rpre /\ lazy'.rsub
            /\ lazy'.refs = lazy.refs + 1 /\ lazy'.pmcount = lazy.pmcount + 1
            /\ lazy'.made.rsub = lazy.made.rsub + 1
            /\ lazy'.made.cond = lazy.made.cond + 1
            /\ lazy'.made.pm = lazy.made.pm + 1
            /\ lazy'.made.rpre = lazy.made.rpre + 1]_vars

\* the subscription could not be created at the first publish, and the second
\* publish initialised the context again
InitialisedAtSecondCall ==
    /\ lazy.log = <<"rsub", "none">> /\ lazy.s = "OK" /\ lazy.rsub
    /\ lazy.made = [cond |-> 2, pm |-> 2, rpre |-> 2, rsub |-> 1]
    /\ lazy.refs = 2 /\ lazy.pmcount = 1

====
